---- MODULE Spec2Model ----
(***************************************************************************)
(* Kodak Step printer driver (esp32-cam/lib/KodakStepPrinter): the packet  *)
(* codec, the request/response exchange over the Bluetooth serial stream   *)
(* and the print flow, as a state machine.  The driver is one sequential   *)
(* thread; the printer and the radio link are the environment.             *)
(***************************************************************************)
EXTENDS Integers, Sequences, FiniteSets, TLC

(* ------------------------------------------------------------------ *)
(* Protocol constants (KodakStepProtocol.h)                            *)
(* ------------------------------------------------------------------ *)
BTP_PACKET_SIZE == 34
BTP_CHUNK_SIZE == 4096
BTP_INTER_CHUNK_DELAY_MS == 20
KODAK_COMMAND_TIMEOUT_MS == 5000
BTP_MIN_BATTERY_LEVEL == 30
BTP_MAX_IMAGE_SIZE == 2 * 1024 * 1024

BTP_START_1 == 27
BTP_START_2 == 42
BTP_IDENT_1 == 67
BTP_IDENT_2 == 65

BTP_CMD_GET_ACCESSORY_INFO == 1
BTP_CMD_GET_PAGE_TYPE == 13
BTP_CMD_GET_BATTERY_LEVEL == 14
BTP_CMD_GET_AUTO_POWER_OFF == 16
BTP_CMD_PRINT_READY == 0

BTP_ERR_SUCCESS == 0
BTP_ERR_PAPER_JAM == 1
BTP_ERR_NO_PAPER == 2
BTP_ERR_COVER_OPEN == 3
BTP_ERR_PAPER_MISMATCH == 4
BTP_ERR_LOW_BATTERY == 5
BTP_ERR_OVERHEATING == 6
BTP_ERR_COOLING == 7
BTP_ERR_MISFEED == 8
BTP_ERR_BUSY == 9
BTP_ERR_NOT_CONNECTED == 254

BTP_FLAG_STANDARD_DEVICE == 0
BTP_FLAG_SLIM_DEVICE == 2

\* delay(10) of the polling loop of receiveResponse
RecvPollDelayMs == 10
\* delay(100) after a status command and after PRINT_READY
PostCommandDelayMs == 100
\* delay(500) after connect and after initialize
PostInitDelayMs == 500

(* ------------------------------------------------------------------ *)
(* Bounds of the model                                                 *)
(* ------------------------------------------------------------------ *)
\* largest image, in whole chunks, that the print flow is run with
MaxChunks == 2
\* every image length from 1 up to this one is run through transferImageData
MaxTransferLen == 8200
\* the printer may cut its 34-byte reply in two pieces after this many bytes
SplitAt == 20
\* faults the environment injects in one run: a reply that is late, cut in
\* two, lost or corrupted, a message the printer sends on its own, a short
\* write, a loss of the link
MaxFaults == 1
\* calls of public methods in one run
MaxCalls == 3
\* buildPrintReadyPacket is applied to every image size up to this one (and
\* to the sizes of ImageSizes)
MaxSizeSample == 600
\* extract_6_bit_reversed is applied to every raw value up to this one
MaxRawValue == 300
\* devices a Bluetooth scan returns, at most
MaxDevices == 2
\* threading.Timer objects a ThreadedClient makes, at most: one in connect and
\* one for each message sent
MaxTimers == 2
\* seconds that pass in one step of the clock
TickSeconds == 10

(* ------------------------------------------------------------------ *)
(* Packets: a uint8_t[34] buffer is a function 0..33 -> 0..255         *)
(* ------------------------------------------------------------------ *)
PIdx == 0 .. (BTP_PACKET_SIZE - 1)

Min(a, b) == IF a < b THEN a ELSE b

Max(a, b) == IF a < b THEN b ELSE a

\* initPacketHeader without its memset: what the buffer held stays
initPacketHeaderNoClear(buffer, flags1, flags2) ==
  [buffer EXCEPT ![0] = BTP_START_1, ![1] = BTP_START_2,
                 ![2] = BTP_IDENT_1, ![3] = BTP_IDENT_2,
                 ![4] = flags1, ![5] = flags2]

\* KodakStepProtocol::initPacketHeader: memset(buffer, 0, 34), magic, flags
initPacketHeader(buffer, flags1, flags2) ==
  [[i \in DOMAIN buffer |-> 0] EXCEPT
     ![0] = BTP_START_1, ![1] = BTP_START_2,
     ![2] = BTP_IDENT_1, ![3] = BTP_IDENT_2,
     ![4] = flags1, ![5] = flags2]

buildGetAccessoryInfoPacket(buffer, isSlim) ==
  [initPacketHeader(buffer, 0, IF isSlim THEN BTP_FLAG_SLIM_DEVICE
                                         ELSE BTP_FLAG_STANDARD_DEVICE)
     EXCEPT ![6] = BTP_CMD_GET_ACCESSORY_INFO, ![7] = 0]

buildGetBatteryLevelPacket(buffer) ==
  [initPacketHeader(buffer, 0, 0) EXCEPT ![6] = BTP_CMD_GET_BATTERY_LEVEL, ![7] = 0]

\* a paper query sent with the command code of the charging query
buildPageTypeWithBatteryCode(buffer) ==
  [initPacketHeader(buffer, 0, 0) EXCEPT ![6] = BTP_CMD_GET_BATTERY_LEVEL, ![7] = 0]

buildGetPageTypePacket(buffer) ==
  [initPacketHeader(buffer, 0, 0) EXCEPT ![6] = BTP_CMD_GET_PAGE_TYPE, ![7] = 0]

\* byte 6 is BTP_CMD_PRINT_READY (0x00); byte 7 = 1 tells it from PRINT_READY
buildGetPrintCountPacket(buffer) ==
  [initPacketHeader(buffer, 0, 0) EXCEPT ![6] = BTP_CMD_PRINT_READY, ![7] = 1]

buildGetAutoPowerOffPacket(buffer) ==
  [initPacketHeader(buffer, 0, 0) EXCEPT ![6] = BTP_CMD_GET_AUTO_POWER_OFF, ![7] = 0]

\* a PRINT_READY packet with the size in little-endian order
buildPrintReadyLittleEndian(buffer, imageSize, numCopies) ==
  [initPacketHeader(buffer, 0, 0) EXCEPT
     ![6] = BTP_CMD_PRINT_READY,
     ![7] = 0,
     ![8] = imageSize % 256,
     ![9] = (imageSize \div 256) % 256,
     ![10] = (imageSize \div 65536) % 256,
     ![11] = numCopies]

\* imageSize is a uint32_t, numCopies a uint8_t
buildPrintReadyPacket(buffer, imageSize, numCopies) ==
  [initPacketHeader(buffer, 0, 0) EXCEPT
     ![6] = BTP_CMD_PRINT_READY,
     ![7] = 0,
     ![8] = (imageSize \div 65536) % 256,
     ![9] = (imageSize \div 256) % 256,
     ![10] = imageSize % 256,
     ![11] = numCopies]

buildStartOfSendAck(buffer) ==
  [initPacketHeader(buffer, 0, 0) EXCEPT ![6] = 1, ![7] = 0, ![8] = 2]

buildEndOfReceivedAck(buffer) ==
  [initPacketHeader(buffer, 0, 0) EXCEPT ![6] = 1, ![7] = 1, ![8] = 2]

\* an acknowledgement that leaves byte 8 as initPacketHeader set it
buildErrorMessageAckNoCode(buffer, errorCode) ==
  [initPacketHeader(buffer, 0, 0) EXCEPT ![6] = 1, ![7] = 0]

buildErrorMessageAck(buffer, errorCode) ==
  [initPacketHeader(buffer, 0, 0) EXCEPT ![6] = 1, ![7] = 0, ![8] = errorCode]

\* header test of parseResponse
MagicOk(r) ==
  /\ r[0] = BTP_START_1
  /\ r[1] = BTP_START_2
  /\ r[2] = BTP_IDENT_1
  /\ r[3] = BTP_IDENT_2

\* parseResponse without its header check
parseResponseNoMagic(r) == [ok |-> r[8] = 0, errorCode |-> r[8]]

\* parseResponse without its test of byte 8
parseResponseMagicOnly(r) ==
  [ok |-> MagicOk(r), errorCode |-> IF MagicOk(r) THEN r[8] ELSE BTP_ERR_NOT_CONNECTED]

\* parseResponse with a header check that stops after the first two bytes
parseResponseHalfMagic(r) ==
  IF r[0] # BTP_START_1 \/ r[1] # BTP_START_2
    THEN [ok |-> FALSE, errorCode |-> BTP_ERR_NOT_CONNECTED]
    ELSE [ok |-> r[8] = BTP_ERR_SUCCESS, errorCode |-> r[8]]

\* parseResponse with errorCode != nullptr: [ok, errorCode]
parseResponse(r) ==
  IF ~MagicOk(r)
    THEN [ok |-> FALSE, errorCode |-> BTP_ERR_NOT_CONNECTED]
    ELSE [ok |-> r[8] = BTP_ERR_SUCCESS, errorCode |-> r[8]]

\* a print count read with byte 9 as the high byte
parsePrintCountLittleEndian(r) == (r[9] * 256 + r[8]) % 65536

\* (response[8] << 8) | response[9], returned as a uint16_t
parsePrintCount(r) == (r[8] * 256 + r[9]) % 65536

parseAutoPowerOff(r) == r[8]

\* getErrorString with the names of codes 6 and 7 exchanged and no case for
\* 0xFE
getErrorStringSwapped(errorCode) ==
  CASE errorCode = BTP_ERR_SUCCESS -> "Success"
    [] errorCode = BTP_ERR_PAPER_JAM -> "Paper jam"
    [] errorCode = BTP_ERR_NO_PAPER -> "Out of paper"
    [] errorCode = BTP_ERR_COVER_OPEN -> "Printer cover open"
    [] errorCode = BTP_ERR_PAPER_MISMATCH -> "Wrong paper type"
    [] errorCode = BTP_ERR_LOW_BATTERY -> "Low battery"
    [] errorCode = BTP_ERR_OVERHEATING -> "Printer cooling"
    [] errorCode = BTP_ERR_COOLING -> "Printer overheating"
    [] errorCode = BTP_ERR_MISFEED -> "Paper misfeed"
    [] errorCode = BTP_ERR_BUSY -> "Printer busy"
    [] OTHER -> "Unknown error"

getErrorString(errorCode) ==
  CASE errorCode = BTP_ERR_SUCCESS -> "Success"
    [] errorCode = BTP_ERR_PAPER_JAM -> "Paper jam"
    [] errorCode = BTP_ERR_NO_PAPER -> "Out of paper"
    [] errorCode = BTP_ERR_COVER_OPEN -> "Printer cover open"
    [] errorCode = BTP_ERR_PAPER_MISMATCH -> "Wrong paper type"
    [] errorCode = BTP_ERR_LOW_BATTERY -> "Low battery"
    [] errorCode = BTP_ERR_OVERHEATING -> "Printer overheating"
    [] errorCode = BTP_ERR_COOLING -> "Printer cooling"
    [] errorCode = BTP_ERR_MISFEED -> "Paper misfeed"
    [] errorCode = BTP_ERR_BUSY -> "Printer busy"
    [] errorCode = BTP_ERR_NOT_CONNECTED -> "Not connected"
    [] OTHER -> "Unknown error"


(* ------------------------------------------------------------------ *)
(* State                                                               *)
(* ------------------------------------------------------------------ *)
VARIABLES
  btSerial,   \* "null" or "obj": the BluetoothSerial* member
  status,     \* PrinterStatus: battery_level, error_code, is_slim_device, is_connected
  lastError,  \* lastError[128], as a string
  pc,         \* position of the (single) driver thread
  op,         \* public method being executed, or the last one executed
  sub,        \* method whose sendAndReceive is in progress
  args,       \* arguments of the call: isSlim, jpegData, dataSize, numCopies
  command,    \* uint8_t command[34] of the current sendAndReceive
  response,   \* bytes stored so far in uint8_t response[34], each with its origin
  elapsed,    \* millis() - startTime inside receiveResponse and transferImageData
  offset,     \* offset of transferImageData
  last,       \* what the last completed call returned
  wire,       \* transport events of the current call: writes and completed responses
  linkUp,     \* btSerial->connected()
  rx,         \* bytes readable from btSerial (available()/read()), in order
  inflight,   \* reply bytes the printer has sent that have not arrived yet
  devJob,     \* what the printer received of a print job during the current call
  faults,     \* faults injected so far
  calls,      \* public methods called so far
  client      \* the ThreadedClient of the Canon printer, its timers and threads

vars == <<btSerial, status, lastError, pc, op, sub, args, command, response,
          elapsed, offset, last, wire, linkUp, rx, inflight, devJob, faults, calls,
          client>>

\* the state of the Kodak driver, its printer and its link
kodakVars == <<btSerial, status, lastError, pc, op, sub, args, command, response,
               elapsed, offset, last, wire, linkUp, rx, inflight, devJob, faults,
               calls>>

\* the threads of a ThreadedClient: the caller's, the I/O thread (run), and
\* the thread of each threading.Timer
TimerName == <<"timer1", "timer2", "timer3", "timer4">>

Threads == {"main", "io"} \cup {TimerName[k] : k \in 1 .. MaxTimers}

\* ThreadedClient.__init__: alive not set, empty queues, disconnect_timer None
\* (0); no Timer made; the transport not connected
NoClient ==
  [alive |-> FALSE,
   connected |-> FALSE,
   disconnect_timer |-> 0,
   timers |-> <<>>,
   outbound_q |-> 0,
   puts |-> 0,
   lost |-> FALSE,
   threads |-> [t \in Threads |->
                  [pc |-> CASE t = "main" -> "new" [] t = "io" -> "unstarted"
                                 [] OTHER -> "waiting",
                   ret |-> "none"]]]

driverVars == <<btSerial, status, lastError, pc, op, sub, args, command, response,
                elapsed, offset, last, wire>>

\* a buffer handed to printImage: the pointer (null or not) and, of the
\* bytes it points to, the first two and the last two
NullData == [null |-> TRUE, head |-> <<>>, tail |-> <<>>]

\* a JPEG: FF D8 ... FF D9
JpegData == [null |-> FALSE, head |-> <<255, 216>>, tail |-> <<255, 217>>]

\* a PNG: 89 50 ... 60 82
OtherData == [null |-> FALSE, head |-> <<137, 80>>, tail |-> <<96, 130>>]

NoArgs ==
  [isSlim |-> FALSE, jpegData |-> NullData, dataSize |-> 0, numCopies |-> 0,
   progressCallback |-> FALSE]

NoJob == [accepted |-> FALSE, got |-> 0]

NoResult == [op |-> "none", ok |-> FALSE, cause |-> "none", val |-> 0]

\* memset(&status, 0, sizeof(status)) in the constructor
ZeroStatus ==
  [battery_level |-> 0, error_code |-> 0, is_slim_device |-> FALSE, is_connected |-> FALSE]

\* KodakStepPrinter::isConnected
isConnected == status.is_connected /\ btSerial # "null" /\ linkUp

(* ------------------------------------------------------------------ *)
(* The printer and the link                                            *)
(* ------------------------------------------------------------------ *)
\* a 34-byte reply: magic (sound or with a wrong last header byte), error
\* code in byte 8, byte 9, battery in byte 12, zero elsewhere
Reply(goodMagic, b8, b9, b12) ==
  [i \in PIdx |->
     CASE i = 0 -> BTP_START_1
       [] i = 1 -> BTP_START_2
       [] i = 2 -> BTP_IDENT_1
       [] i = 3 -> IF goodMagic THEN BTP_IDENT_2 ELSE BTP_IDENT_2 + 1
       [] i = 8 -> b8
       [] i = 9 -> b9
       [] i = 12 -> b12
       [] OTHER -> 0]

BatteryValues == {BTP_MIN_BATTERY_LEVEL - 1, BTP_MIN_BATTERY_LEVEL}

PaperErrors ==
  {BTP_ERR_PAPER_JAM, BTP_ERR_NO_PAPER, BTP_ERR_COVER_OPEN,
   BTP_ERR_PAPER_MISMATCH, BTP_ERR_MISFEED}

\* replies the printer may give to a command, by the command's byte 6/7
Replies(cmd) ==
  IF cmd[6] = BTP_CMD_GET_ACCESSORY_INFO
    THEN {Reply(TRUE, 0, 0, b) : b \in BatteryValues}
         \cup {Reply(TRUE, BTP_ERR_NO_PAPER, 0, BTP_MIN_BATTERY_LEVEL),
              Reply(FALSE, 0, 0, BTP_MIN_BATTERY_LEVEL)}
  ELSE IF cmd[6] = BTP_CMD_GET_PAGE_TYPE
    THEN {Reply(TRUE, e, 0, 0) : e \in PaperErrors \cup {BTP_ERR_SUCCESS}}
         \cup {Reply(FALSE, 0, 0, 0)}
  ELSE IF cmd[6] = BTP_CMD_PRINT_READY /\ cmd[7] = 1
    THEN {Reply(TRUE, 1, 44, 0), Reply(FALSE, 1, 44, 0)}
  ELSE IF cmd[6] = BTP_CMD_GET_BATTERY_LEVEL
    THEN {Reply(TRUE, 0, 0, 0), Reply(TRUE, 1, 0, 0), Reply(TRUE, 2, 0, 0),
          Reply(FALSE, 0, 0, 0)}
  ELSE {Reply(TRUE, 0, 0, 0), Reply(TRUE, 1, 0, 0), Reply(FALSE, 0, 0, 0)}

\* the reply as stream bytes: value, origin ("cur": reply to the command of
\* the sendAndReceive in progress; "old": anything sent before), index
Tagged(p) == [i \in 1 .. BTP_PACKET_SIZE |-> [v |-> p[i - 1], src |-> "cur", k |-> i - 1]]

Aged(bytes) == [i \in DOMAIN bytes |-> [v |-> bytes[i].v, src |-> "old", k |-> 0]]

AgedFlight(fl) == [i \in DOMAIN fl |-> [at |-> fl[i].at, bytes |-> Aged(fl[i].bytes)]]

\* when the pieces of a reply arrive, in ms after the command was written
Prompt == <<[at |-> 0, n |-> BTP_PACKET_SIZE]>>

Schedules ==
  { <<>>,
    Prompt,
    <<[at |-> 0, n |-> SplitAt],
      [at |-> KODAK_COMMAND_TIMEOUT_MS, n |-> BTP_PACKET_SIZE - SplitAt]>>,
    <<[at |-> 0, n |-> SplitAt],
      [at |-> KODAK_COMMAND_TIMEOUT_MS + 1, n |-> BTP_PACKET_SIZE - SplitAt]>>,
    <<[at |-> KODAK_COMMAND_TIMEOUT_MS + 1000, n |-> BTP_PACKET_SIZE]>> }

RECURSIVE FlightBytes(_)
FlightBytes(fl) == IF fl = <<>> THEN <<>> ELSE fl[1].bytes \o FlightBytes(Tail(fl))

LastAt(fl) == IF fl = <<>> THEN 0 ELSE fl[Len(fl)].at

\* the stream keeps the order: a piece never overtakes one sent before it
RECURSIVE Pieces(_, _, _, _)
Pieces(bytes, sched, from, floor) ==
  IF sched = <<>> THEN <<>>
  ELSE <<[at |-> Max(sched[1].at, floor),
          bytes |-> SubSeq(bytes, from, from + sched[1].n - 1)]>>
       \o Pieces(bytes, Tail(sched), from + sched[1].n, Max(sched[1].at, floor))

\* the link after d ms: what has arrived is readable, the rest is d ms closer
ArrivedCount(fl, d) == Cardinality({i \in DOMAIN fl : fl[i].at <= d})

RxAfter(r, fl, d) == r \o FlightBytes(SubSeq(fl, 1, ArrivedCount(fl, d)))

FlightAfter(fl, d) ==
  [i \in 1 .. (Len(fl) - ArrivedCount(fl, d)) |->
     [at |-> fl[i + ArrivedCount(fl, d)].at - d, bytes |-> fl[i + ArrivedCount(fl, d)].bytes]]

\* the printer accepts a print job when it answers PRINT_READY with success
IsPrintReady(cmd) == cmd[6] = BTP_CMD_PRINT_READY /\ cmd[7] = 0

Accepts(cmd, reply) == IsPrintReady(cmd) /\ parseResponse(reply).ok


(* ------------------------------------------------------------------ *)
(* Driver helpers                                                      *)
(* ------------------------------------------------------------------ *)
\* the response buffer as a packet
RespPkt(resp) == [i \in PIdx |-> resp[i + 1].v]

NoPacket == [i \in PIdx |-> 0]

\* the message each caller of sendAndReceive sets when it returns false
SendRecvError(s) ==
  CASE s = "initialize" -> "Failed to get accessory info"
    [] s = "getBatteryLevel" -> "Failed to get battery level"
    [] s = "getChargingStatus" -> "Failed to get charging status"
    [] s = "checkPaperStatus" -> "Failed to check paper status"
    [] s = "getPrintCount" -> "Failed to get print count"
    [] s = "getAutoPowerOff" -> "Failed to get auto power off setting"
    [] OTHER -> "Failed to send PRINT_READY"

\* a battery test that refuses at the threshold too: what printImage would do
\* with <= in place of <
BatteryTooLowInclusive(battery) == battery <= BTP_MIN_BATTERY_LEVEL

\* battery test of printImage
BatteryTooLow(battery) == battery < BTP_MIN_BATTERY_LEVEL

\* a battery level taken from byte 8, where the charging flag is
BatteryFromByte8(resp) == resp[8]

\* *level = response[12] of getBatteryLevel
BatteryOf(resp) == resp[12]

\* a write test that takes any non-empty write for a whole one
WroteSome(written, length) == written > 0

\* the test of sendCommand on what btSerial->write returned
WroteAll(written, length) == written = length

\* a chunk size one byte short of BTP_CHUNK_SIZE
ChunkSizeShort(size, off) == Min(size - off, BTP_CHUNK_SIZE - 1)

\* chunkSize of transferImageData
ChunkSize(size, off) == Min(size - off, BTP_CHUNK_SIZE)

\* what btSerial->write(buf, length) may return: all of it, or (a fault)
\* half of it; nothing once the link is down
WriteResults(length) ==
  IF ~linkUp THEN {0}
  ELSE IF faults < MaxFaults THEN {length, length \div 2}
  ELSE {length}

\* a call returns: the result is recorded, the locals of the call are gone
Return(ok, cause, val) ==
  /\ pc' = "idle"
  /\ sub' = "none"
  /\ last' = [op |-> op', ok |-> ok, cause |-> cause, val |-> val]
  /\ command' = NoPacket
  /\ response' = <<>>
  /\ elapsed' = 0
  /\ offset' = 0

\* a call goes on to the sendAndReceive of method s with command cmd
Goto(s, cmd) ==
  /\ pc' = "send"
  /\ sub' = s
  /\ command' = cmd
  /\ response' = <<>>
  /\ elapsed' = 0
  /\ UNCHANGED <<last, offset>>

\* a public method is entered: the record of the previous call is dropped
Enter(o, a) ==
  /\ pc = "idle"
  /\ calls < MaxCalls
  /\ calls' = calls + 1
  /\ op' = o
  /\ args' = a
  /\ wire' = <<>>
  /\ devJob' = NoJob

\* an entry that goes on to the command whatever isConnected says
StartCommandUnchecked(s, cmd) ==
  /\ Goto(s, cmd)
  /\ UNCHANGED lastError

\* the entry of a status method: isConnected, build the command
StartCommand(s, cmd) ==
  IF ~isConnected
    THEN /\ lastError' = "Not connected to printer"
         /\ Return(FALSE, "notconn", 0)
    ELSE /\ Goto(s, cmd)
         /\ UNCHANGED lastError

\* a delay that returns at once
SleepNone(t, ms) == t

\* the time after delay(ms) called at time t
Sleep(t, ms) == t + ms

\* delay(ms): the link goes on delivering
Delay(ms) ==
  /\ rx' = RxAfter(rx, inflight, ms)
  /\ inflight' = FlightAfter(inflight, ms)

(* ------------------------------------------------------------------ *)
(* Connection management                                               *)
(* ------------------------------------------------------------------ *)
\* KodakStepPrinter::begin: a new BluetoothSerial, or none if the allocation
\* or BluetoothSerial::begin fails
Begin ==
  /\ Enter("begin", NoArgs)
  /\ \E outcome \in {"ok", "nomem", "failed"} :
       /\ btSerial' = IF outcome = "ok" THEN "obj" ELSE "null"
       /\ lastError' =
            CASE outcome = "ok" -> lastError
              [] outcome = "nomem" -> "Failed to allocate BluetoothSerial (out of memory)"
              [] OTHER -> "Failed to initialize Bluetooth"
       /\ Return(outcome = "ok", "none", 0)
  /\ linkUp' = FALSE
  /\ rx' = <<>>
  /\ inflight' = <<>>
  /\ UNCHANGED <<status, faults>>
  /\ UNCHANGED client

\* KodakStepPrinter::connect(address)
Connect ==
  /\ Enter("connect", NoArgs)
  /\ IF btSerial = "null"
       THEN /\ lastError' = "Bluetooth not initialized. Call begin() first."
            /\ Return(FALSE, "nobt", 0)
            /\ UNCHANGED <<status, linkUp, rx, inflight>>
       ELSE \E ok \in BOOLEAN :
              IF ~ok
                THEN /\ lastError' = "Failed to connect to printer"
                     /\ Return(FALSE, "connect", 0)
                     /\ UNCHANGED <<status, linkUp, rx, inflight>>
                ELSE /\ linkUp' = TRUE
                     /\ status' = [status EXCEPT !.is_connected = TRUE]
                     /\ Delay(PostInitDelayMs)
                     /\ Return(TRUE, "none", 0)
                     /\ UNCHANGED lastError
  /\ UNCHANGED <<btSerial, faults>>
  /\ UNCHANGED client

\* a disconnect that closes the transport whenever there is one
DisconnectsAlways == btSerial # "null"

\* the test of disconnect: btSerial != nullptr && status.is_connected
Disconnects == btSerial # "null" /\ status.is_connected

\* KodakStepPrinter::disconnect; the record of the call says whether
\* btSerial->disconnect() was called
Disconnect ==
  /\ Enter("disconnect", NoArgs)
  /\ IF Disconnects
       THEN /\ linkUp' = FALSE
            /\ inflight' = <<>>
            /\ status' = [status EXCEPT !.is_connected = FALSE]
       ELSE UNCHANGED <<linkUp, inflight, status>>
  /\ Return(TRUE, IF Disconnects THEN "closed" ELSE "none", 0)
  /\ UNCHANGED <<btSerial, lastError, rx, faults>>
  /\ UNCHANGED client

(* ------------------------------------------------------------------ *)
(* Public methods: entry                                               *)
(* ------------------------------------------------------------------ *)
Initialize ==
  /\ \E slim \in BOOLEAN :
       /\ Enter("initialize", [NoArgs EXCEPT !.isSlim = slim])
       /\ StartCommand("initialize", buildGetAccessoryInfoPacket(command, slim))
  /\ UNCHANGED <<btSerial, status, linkUp, rx, inflight, faults>>
  /\ UNCHANGED client

GetBatteryLevel ==
  /\ Enter("getBatteryLevel", NoArgs)
  /\ StartCommand("getBatteryLevel", buildGetAccessoryInfoPacket(command, status.is_slim_device))
  /\ UNCHANGED <<btSerial, status, linkUp, rx, inflight, faults>>
  /\ UNCHANGED client

GetChargingStatus ==
  /\ Enter("getChargingStatus", NoArgs)
  /\ StartCommand("getChargingStatus", buildGetBatteryLevelPacket(command))
  /\ UNCHANGED <<btSerial, status, linkUp, rx, inflight, faults>>
  /\ UNCHANGED client

CheckPaperStatus ==
  /\ Enter("checkPaperStatus", NoArgs)
  /\ StartCommand("checkPaperStatus", buildGetPageTypePacket(command))
  /\ UNCHANGED <<btSerial, status, linkUp, rx, inflight, faults>>
  /\ UNCHANGED client

GetPrintCount ==
  /\ Enter("getPrintCount", NoArgs)
  /\ StartCommand("getPrintCount", buildGetPrintCountPacket(command))
  /\ UNCHANGED <<btSerial, status, linkUp, rx, inflight, faults>>
  /\ UNCHANGED client

GetAutoPowerOff ==
  /\ Enter("getAutoPowerOff", NoArgs)
  /\ StartCommand("getAutoPowerOff", buildGetAutoPowerOffPacket(command))
  /\ UNCHANGED <<btSerial, status, linkUp, rx, inflight, faults>>
  /\ UNCHANGED client

\* (jpegData, dataSize, numCopies) printImage is called with
PrintCalls ==
  { <<NullData, 100, 1>>,
    <<JpegData, 0, 1>>,
    <<JpegData, 4, 0>>,
    <<OtherData, 4, 1>>,
    <<JpegData, MaxChunks * BTP_CHUNK_SIZE - 1, 1>>,
    <<JpegData, BTP_MAX_IMAGE_SIZE + 1, 1>> }

\* the same at the limits of the size test
LimitCalls ==
  { <<NullData, 100, 1>>,
    <<JpegData, 0, 1>>,
    <<JpegData, 1, 1>>,
    <<JpegData, BTP_MAX_IMAGE_SIZE, 1>>,
    <<JpegData, BTP_MAX_IMAGE_SIZE + 1, 1>>,
    <<JpegData, 16777216 + BTP_CHUNK_SIZE, 1>> }

\* a size test that lets every size pass
ImageTooLargeNever(dataSize) == FALSE

\* a size test that refuses an image of exactly BTP_MAX_IMAGE_SIZE bytes
ImageTooLargeInclusive(dataSize) == dataSize >= BTP_MAX_IMAGE_SIZE

\* size test of printImage
ImageTooLarge(dataSize) == dataSize > BTP_MAX_IMAGE_SIZE

\* printImage up to its call of getBatteryLevel
PrintImageWith(cs) ==
  /\ \E c \in cs :
       /\ Enter("printImage", [isSlim |-> FALSE, jpegData |-> c[1],
                               dataSize |-> c[2], numCopies |-> c[3],
                               progressCallback |-> TRUE])
       /\ IF c[1].null
            THEN /\ lastError' = "Image data cannot be null"
                 /\ Return(FALSE, "args", 0)
          ELSE IF c[2] = 0
            THEN /\ lastError' = "Image data size cannot be zero"
                 /\ Return(FALSE, "args", 0)
          ELSE IF ImageTooLarge(c[2])
            THEN /\ lastError' = "Image data exceeds maximum size (2MB)"
                 /\ Return(FALSE, "args", 0)
          ELSE StartCommand("getBatteryLevel",
                            buildGetAccessoryInfoPacket(command, status.is_slim_device))
  /\ UNCHANGED <<btSerial, status, linkUp, rx, inflight, faults>>

PrintImage == PrintImageWith(PrintCalls)
  /\ UNCHANGED client

PrintImageAtLimit == PrintImageWith(LimitCalls)
  /\ UNCHANGED client

(* ------------------------------------------------------------------ *)
(* sendAndReceive                                                      *)
(* ------------------------------------------------------------------ *)
\* the caller's handling of sendAndReceive() == false: setError, return false
SendRecvFails(cause) ==
  /\ lastError' = SendRecvError(sub)
  /\ UNCHANGED op
  /\ Return(FALSE, cause, 0)

\* the printer has received a whole command and picked a reply, the link a
\* delivery: what was sent earlier is from now on a reply to an older command
FlightWith(reply, sched) ==
  AgedFlight(inflight) \o Pieces(Tagged(reply), sched, 1, LastAt(inflight))

\* sendCommand(command, 34): connection check, then write
SendCommand ==
  /\ pc = "send"
  /\ IF btSerial = "null"
       THEN /\ SendRecvFails("send")
            /\ UNCHANGED <<status, wire, rx, inflight, devJob, faults, calls>>
     ELSE IF ~linkUp
       THEN /\ status' = [status EXCEPT !.is_connected = FALSE]
            /\ SendRecvFails("link")
            /\ UNCHANGED <<wire, rx, inflight, devJob, faults, calls>>
     ELSE \E written \in WriteResults(BTP_PACKET_SIZE) :
            /\ wire' = Append(wire, [kind |-> "cmd", pkt |-> command, n |-> written])
            /\ UNCHANGED status
            /\ IF ~WroteAll(written, BTP_PACKET_SIZE)
                 THEN /\ SendRecvFails("send")
                      /\ faults' = faults + 1
                      /\ UNCHANGED <<rx, inflight, devJob>>
                 ELSE /\ pc' = "recv"
                      /\ UNCHANGED <<lastError, op, sub, last, command, response,
                                     elapsed, offset, rx, inflight, devJob, faults>>
  /\ UNCHANGED <<btSerial, args, linkUp, calls>>
  /\ UNCHANGED client

\* a timeout test that lets one more poll go by
TimedOutLate(e, timeoutMs) == e > timeoutMs + RecvPollDelayMs

\* the timeout test at the head of the loop
TimedOut(e, timeoutMs) == e > timeoutMs

\* bytes the loop stores while available() stays true
ReadCount(resp, r) == Min(Len(r), BTP_PACKET_SIZE - Len(resp))

\* how long the loop sleeps, 10 ms at a time, before an iteration finds a
\* byte or the timeout
WaitMs(e, fl) ==
  LET toTimeout == Max(RecvPollDelayMs,
                       ((KODAK_COMMAND_TIMEOUT_MS - e) \div RecvPollDelayMs + 1) * RecvPollDelayMs)
      toByte == ((fl[1].at + RecvPollDelayMs - 1) \div RecvPollDelayMs) * RecvPollDelayMs
  IN  IF fl = <<>> THEN toTimeout
      ELSE Min(toTimeout, Max(RecvPollDelayMs, toByte))

\* the loop of receiveResponse from the state l = [response, rx, inflight,
\* elapsed]: until 34 bytes are stored, an iteration returns false on the
\* timeout test, else stores a byte if one is available, else sleeps 10 ms.
\* Runs of iterations that store (or sleep) are taken together.
RECURSIVE RecvLoop(_)
RecvLoop(l) ==
  IF Len(l.response) = BTP_PACKET_SIZE THEN [l EXCEPT !.ok = TRUE]
  ELSE IF TimedOut(l.elapsed, KODAK_COMMAND_TIMEOUT_MS) THEN [l EXCEPT !.ok = FALSE]
  ELSE IF l.rx # <<>>
    THEN RecvLoop([l EXCEPT
           !.response = l.response \o SubSeq(l.rx, 1, ReadCount(l.response, l.rx)),
           !.rx = SubSeq(l.rx, ReadCount(l.response, l.rx) + 1, Len(l.rx))])
  ELSE RecvLoop([l EXCEPT
           !.elapsed = l.elapsed + WaitMs(l.elapsed, l.inflight),
           !.rx = RxAfter(l.rx, l.inflight, WaitMs(l.elapsed, l.inflight)),
           !.inflight = FlightAfter(l.inflight, WaitMs(l.elapsed, l.inflight))])

\* receiveResponse(response, timeoutMs): the connection check, startTime =
\* millis(), the loop, run against what the printer answers to the command
\* and how the link delivers it; then sendAndReceive returns to its caller
ReceiveResponse ==
  /\ pc = "recv"
  /\ IF btSerial = "null" \/ ~linkUp
       THEN /\ status' = [status EXCEPT !.is_connected = FALSE]
            /\ SendRecvFails("link")
            /\ UNCHANGED <<wire, rx, inflight, devJob, faults>>
       ELSE \E reply \in Replies(command), sched \in Schedules :
              LET l == RecvLoop([response |-> <<>>, rx |-> Aged(rx),
                                 inflight |-> FlightWith(reply, sched),
                                 elapsed |-> 0, ok |-> FALSE])
              IN  /\ faults' = faults
                               + (IF sched # Prompt \/ ~MagicOk(reply) THEN 1 ELSE 0)
                  /\ faults' <= MaxFaults
                  /\ devJob' = IF Accepts(command, reply)
                                 THEN [devJob EXCEPT !.accepted = TRUE] ELSE devJob
                  /\ rx' = l.rx
                  /\ inflight' = l.inflight
                  /\ UNCHANGED status
                  /\ IF l.ok
                       THEN /\ pc' = "parse"
                            /\ response' = l.response
                            /\ elapsed' = l.elapsed
                            /\ wire' = Append(wire, [kind |-> "resp",
                                                     pkt |-> RespPkt(l.response),
                                                     n |-> BTP_PACKET_SIZE])
                            /\ UNCHANGED <<lastError, op, sub, last, command, offset>>
                       ELSE /\ SendRecvFails("timeout")
                            /\ UNCHANGED wire
  /\ UNCHANGED <<btSerial, args, linkUp, calls>>
  /\ UNCHANGED client

(* ------------------------------------------------------------------ *)
(* After the response: the rest of each method                         *)
(* ------------------------------------------------------------------ *)
\* parseResponse failed: setError(getErrorString), status.error_code, return false
ParseFails(code) ==
  /\ lastError' = getErrorString(code)
  /\ status' = [status EXCEPT !.error_code = code]
  /\ UNCHANGED op
  /\ Return(FALSE, "parse", code)
  /\ UNCHANGED <<rx, inflight>>

\* a successful initialize that does not store its isSlimDevice argument
InitializedStatusNoSlim(st, isSlimDevice) ==
  [st EXCEPT !.error_code = BTP_ERR_SUCCESS]

\* status.is_slim_device = isSlimDevice; status.error_code = BTP_ERR_SUCCESS
InitializedStatus(st, isSlimDevice) ==
  [st EXCEPT !.is_slim_device = isSlimDevice, !.error_code = BTP_ERR_SUCCESS]

InitializeDone ==
  /\ pc = "parse" /\ sub = "initialize"
  /\ LET r == parseResponse(RespPkt(response)) IN
       IF ~r.ok
         THEN ParseFails(r.errorCode)
         ELSE /\ status' = InitializedStatus(status, args.isSlim)
              /\ Delay(PostInitDelayMs)
              /\ UNCHANGED <<op, lastError>>
              /\ Return(TRUE, "none", 0)
  /\ UNCHANGED <<btSerial, args, wire, linkUp, devJob, faults, calls>>
  /\ UNCHANGED client

\* getBatteryLevel after its sendAndReceive and, inside printImage, the
\* battery test and the entry of checkPaperStatus
GetBatteryLevelDone ==
  /\ pc = "parse" /\ sub = "getBatteryLevel"
  /\ LET level == BatteryOf(RespPkt(response)) IN
       /\ status' = [status EXCEPT !.battery_level = level]
       /\ Delay(PostCommandDelayMs)
       /\ UNCHANGED op
       /\ IF op = "getBatteryLevel"
            THEN /\ Return(TRUE, "none", level)
                 /\ UNCHANGED lastError
          ELSE IF BatteryTooLow(level)
            THEN /\ lastError' = "Battery too low to print"
                 /\ Return(FALSE, "battery", level)
          ELSE StartCommand("checkPaperStatus", buildGetPageTypePacket(command))
  /\ UNCHANGED <<btSerial, args, wire, linkUp, devJob, faults, calls>>
  /\ UNCHANGED client

GetChargingStatusDone ==
  /\ pc = "parse" /\ sub = "getChargingStatus"
  /\ Delay(PostCommandDelayMs)
  /\ UNCHANGED op
  /\ Return(TRUE, "none", IF RespPkt(response)[8] = 1 THEN 1 ELSE 0)
  /\ UNCHANGED <<btSerial, status, lastError, args, wire, linkUp, devJob, faults, calls>>
  /\ UNCHANGED client

\* checkPaperStatus after its sendAndReceive and, inside printImage, the
\* PRINT_READY command
CheckPaperStatusDone ==
  /\ pc = "parse" /\ sub = "checkPaperStatus"
  /\ LET r == parseResponse(RespPkt(response)) IN
       IF ~r.ok
         THEN ParseFails(r.errorCode)
         ELSE /\ Delay(PostCommandDelayMs)
              /\ UNCHANGED <<op, status, lastError>>
              /\ IF op = "checkPaperStatus"
                   THEN Return(TRUE, "none", 0)
                   ELSE Goto("printReady",
                             buildPrintReadyPacket(command, args.dataSize, args.numCopies))
  /\ UNCHANGED <<btSerial, args, wire, linkUp, devJob, faults, calls>>
  /\ UNCHANGED client

GetPrintCountDone ==
  /\ pc = "parse" /\ sub = "getPrintCount"
  /\ Delay(PostCommandDelayMs)
  /\ UNCHANGED op
  /\ Return(TRUE, "none", parsePrintCount(RespPkt(response)))
  /\ UNCHANGED <<btSerial, status, lastError, args, wire, linkUp, devJob, faults, calls>>
  /\ UNCHANGED client

GetAutoPowerOffDone ==
  /\ pc = "parse" /\ sub = "getAutoPowerOff"
  /\ Delay(PostCommandDelayMs)
  /\ UNCHANGED op
  /\ Return(TRUE, "none", parseAutoPowerOff(RespPkt(response)))
  /\ UNCHANGED <<btSerial, status, lastError, args, wire, linkUp, devJob, faults, calls>>
  /\ UNCHANGED client

\* printImage after the PRINT_READY exchange, up to the first chunk:
\* parseResponse, delay(100), the isConnected test of transferImageData
PrintReadyDone ==
  /\ pc = "parse" /\ sub = "printReady"
  /\ LET r == parseResponse(RespPkt(response)) IN
       IF ~r.ok
         THEN ParseFails(r.errorCode)
         ELSE /\ Delay(PostCommandDelayMs)
              /\ UNCHANGED <<op, status>>
              /\ IF ~isConnected
                   THEN /\ lastError' = "Failed to transfer image data"
                        /\ Return(FALSE, "xfer", 0)
                   ELSE /\ offset' = 0
                        /\ elapsed' = 0
                        /\ pc' = "xfer"
                        /\ sub' = "transferImageData"
                        /\ UNCHANGED <<lastError, last, command, response>>
  /\ UNCHANGED <<btSerial, args, wire, linkUp, devJob, faults, calls>>
  /\ UNCHANGED client

\* a progress callback given its two arguments in the wrong order
ProgressCallsSwapped(progressCallback, bytesSent, totalBytes) ==
  IF progressCallback
    THEN <<[bytesSent |-> totalBytes, totalBytes |-> bytesSent]>>
    ELSE <<>>

\* if (progressCallback != nullptr) progressCallback(offset, size): the calls
\* made, in order
ProgressCalls(progressCallback, bytesSent, totalBytes) ==
  IF progressCallback
    THEN <<[bytesSent |-> bytesSent, totalBytes |-> totalBytes]>>
    ELSE <<>>

\* one iteration of the loop of transferImageData: sendCommand(&data[offset],
\* chunkSize, true), offset += chunkSize, delay(20); after the last one
\* printImage returns true.  During the transfer elapsed is the time since
\* the loop was entered, counting the delays only.  The record of a write
\* keeps the progress callbacks made after it.
TransferChunk ==
  /\ pc = "xfer"
  /\ \E written \in WriteResults(ChunkSize(args.dataSize, offset)) :
       /\ wire' = Append(wire, [kind |-> "data", off |-> offset, n |-> written,
                                at |-> elapsed,
                                progress |->
                                  IF WroteAll(written, ChunkSize(args.dataSize, offset))
                                    THEN ProgressCalls(args.progressCallback,
                                           offset + ChunkSize(args.dataSize, offset),
                                           args.dataSize)
                                    ELSE <<>>])
       /\ devJob' = [devJob EXCEPT !.got = @ + written]
       /\ UNCHANGED op
       /\ IF ~WroteAll(written, ChunkSize(args.dataSize, offset))
            THEN /\ lastError' = "Failed to transfer image data"
                 /\ Return(FALSE, "xfer", 0)
                 /\ faults' = faults + (IF linkUp THEN 1 ELSE 0)
                 /\ UNCHANGED <<rx, inflight>>
            ELSE /\ Delay(BTP_INTER_CHUNK_DELAY_MS)
                 /\ UNCHANGED <<lastError, faults>>
                 /\ IF offset + ChunkSize(args.dataSize, offset) < args.dataSize
                      THEN /\ offset' = offset + ChunkSize(args.dataSize, offset)
                           /\ elapsed' = Sleep(elapsed, BTP_INTER_CHUNK_DELAY_MS)
                           /\ UNCHANGED <<pc, sub, last, command, response>>
                      ELSE Return(TRUE, "none", 0)
  /\ UNCHANGED <<btSerial, status, args, linkUp, calls>>
  /\ UNCHANGED client

(* ------------------------------------------------------------------ *)
(* The environment                                                     *)
(* ------------------------------------------------------------------ *)
\* the radio link goes down (a fault); what was on the way is lost
LinkDrop ==
  /\ linkUp
  /\ faults < MaxFaults
  /\ faults' = faults + 1
  /\ linkUp' = FALSE
  /\ inflight' = <<>>
  /\ UNCHANGED <<driverVars, rx, devJob, calls>>
  /\ UNCHANGED client

\* a message the printer sends on its own (the protocol has acknowledgements
\* for such messages: buildStartOfSendAck, buildErrorMessageAck)
DeviceMessage == Reply(TRUE, BTP_ERR_SUCCESS, 0, 0)

PrinterMessage ==
  /\ linkUp
  /\ faults < MaxFaults
  /\ faults' = faults + 1
  /\ inflight' = inflight \o <<[at |-> LastAt(inflight), bytes |-> Aged(Tagged(DeviceMessage))]>>
  /\ UNCHANGED <<driverVars, linkUp, rx, devJob, calls>>
  /\ UNCHANGED client

\* the caller lets time pass between two calls: everything sent arrives
IdleWait ==
  /\ pc = "idle"
  /\ inflight # <<>>
  /\ rx' = rx \o FlightBytes(inflight)
  /\ inflight' = <<>>
  /\ UNCHANGED <<driverVars, linkUp, devJob, faults, calls>>
  /\ UNCHANGED client

(* ------------------------------------------------------------------ *)
(* Specification                                                       *)
(* ------------------------------------------------------------------ *)
Init ==
  /\ btSerial = "null"
  /\ status = ZeroStatus
  /\ lastError = ""
  /\ pc = "idle"
  /\ op = "none"
  /\ sub = "none"
  /\ args = NoArgs
  /\ command = NoPacket
  /\ response = <<>>
  /\ elapsed = 0
  /\ offset = 0
  /\ last = NoResult
  /\ wire = <<>>
  /\ linkUp = FALSE
  /\ rx = <<>>
  /\ inflight = <<>>
  /\ devJob = NoJob
  /\ faults = 0
  /\ calls = 0
  /\ client = NoClient

Next ==
  \/ Begin
  \/ Connect
  \/ Disconnect
  \/ Initialize
  \/ GetBatteryLevel
  \/ GetChargingStatus
  \/ CheckPaperStatus
  \/ GetPrintCount
  \/ GetAutoPowerOff
  \/ PrintImage
  \/ SendCommand
  \/ ReceiveResponse
  \/ InitializeDone
  \/ GetBatteryLevelDone
  \/ GetChargingStatusDone
  \/ CheckPaperStatusDone
  \/ GetPrintCountDone
  \/ GetAutoPowerOffDone
  \/ PrintReadyDone
  \/ TransferChunk
  \/ LinkDrop
  \/ PrinterMessage
  \/ IdleWait

Spec == Init /\ [][Next]_vars

(* ------------------------------------------------------------------ *)
(* transferImageData on its own, for every buffer length               *)
(* ------------------------------------------------------------------ *)
\* buffer lengths: every length up to MaxTransferLen, and 10000, 2 MiB - 1
\* and 2 MiB
TransferLens ==
  (1 .. MaxTransferLen) \cup {10000, BTP_MAX_IMAGE_SIZE - 1, BTP_MAX_IMAGE_SIZE}

\* printImage has called transferImageData(data, size, callback) on a
\* connected printer, and the loop is about to start; wire records what
\* transferImageData writes
InitTransfer ==
  /\ btSerial = "obj"
  /\ \E size \in TransferLens :
       \E callback \in BOOLEAN :
         args = [isSlim |-> FALSE, jpegData |-> JpegData, dataSize |-> size,
                 numCopies |-> 1, progressCallback |-> callback]
  /\ status = [ZeroStatus EXCEPT !.is_connected = TRUE,
                                 !.battery_level = BTP_MIN_BATTERY_LEVEL]
  /\ lastError = ""
  /\ pc = "xfer"
  /\ op = "printImage"
  /\ sub = "transferImageData"
  /\ command = NoPacket
  /\ response = <<>>
  /\ elapsed = 0
  /\ offset = 0
  /\ last = NoResult
  /\ wire = <<>>
  /\ linkUp = TRUE
  /\ rx = <<>>
  /\ inflight = <<>>
  /\ devJob = [accepted |-> TRUE, got |-> 0]
  /\ faults = 0
  /\ calls = MaxCalls
  /\ client = NoClient

NextTransfer ==
  \/ TransferChunk
  \/ LinkDrop

SpecTransfer == InitTransfer /\ [][NextTransfer]_vars

(* ------------------------------------------------------------------ *)
(* printImage on its own, at the limits of its argument checks         *)
(* ------------------------------------------------------------------ *)
\* after the constructor, or after begin and connect have succeeded, with a
\* battery value cached by an earlier getBatteryLevel
InitPrint ==
  /\ \E connected \in BOOLEAN :
       /\ btSerial = IF connected THEN "obj" ELSE "null"
       /\ linkUp = connected
       /\ \E b \in {0, BTP_MIN_BATTERY_LEVEL} :
            status = [ZeroStatus EXCEPT !.is_connected = connected,
                                        !.battery_level = IF connected THEN b ELSE 0]
  /\ lastError = ""
  /\ pc = "idle"
  /\ op = "none"
  /\ sub = "none"
  /\ args = NoArgs
  /\ command = NoPacket
  /\ response = <<>>
  /\ elapsed = 0
  /\ offset = 0
  /\ last = NoResult
  /\ wire = <<>>
  /\ rx = <<>>
  /\ inflight = <<>>
  /\ devJob = NoJob
  /\ faults = 0
  /\ calls = MaxCalls - 1
  /\ client = NoClient

NextPrint ==
  \/ PrintImageAtLimit
  \/ SendCommand
  \/ ReceiveResponse
  \/ GetBatteryLevelDone
  \/ CheckPaperStatusDone
  \/ PrintReadyDone
  \/ TransferChunk

SpecPrint == InitPrint /\ [][NextPrint]_vars

(* ------------------------------------------------------------------ *)
(* begin, connect and disconnect on their own                          *)
(* ------------------------------------------------------------------ *)
\* after the constructor; the calls are counted from -1, so that a run has
\* room for begin, connect and two calls of disconnect
InitConn ==
  /\ btSerial = "null"
  /\ status = ZeroStatus
  /\ lastError = ""
  /\ pc = "idle"
  /\ op = "none"
  /\ sub = "none"
  /\ args = NoArgs
  /\ command = NoPacket
  /\ response = <<>>
  /\ elapsed = 0
  /\ offset = 0
  /\ last = NoResult
  /\ wire = <<>>
  /\ linkUp = FALSE
  /\ rx = <<>>
  /\ inflight = <<>>
  /\ devJob = NoJob
  /\ faults = 0
  /\ calls = -1
  /\ client = NoClient

NextConn ==
  \/ Begin
  \/ Connect
  \/ Disconnect
  \/ LinkDrop
  \/ PrinterMessage
  \/ IdleWait

SpecConn == InitConn /\ [][NextConn]_vars

(* ------------------------------------------------------------------ *)
(* The packet codec on its own: one function applied to one input      *)
(* ------------------------------------------------------------------ *)
Bytes == 0 .. 255

\* what a buffer handed to a builder may hold: zeros, 0xFF everywhere, an
\* earlier PRINT_READY packet
DirtyBuffers ==
  { NoPacket,
    [i \in PIdx |-> 255],
    buildPrintReadyPacket(NoPacket, 16777215, 255) }

\* uint32_t image sizes
ImageSizes ==
  (0 .. MaxSizeSample)
    \cup {4096, 50000, 65535, 65536, 65537, BTP_MAX_IMAGE_SIZE, 16777215}
    \cup {16777216, 16777217, 16777216 + 50000, 2147483647}

CopiesValues == {0, 1, 2, 255}

\* responses: the magic sound or wrong in one of its four bytes, any byte 8
WrongMagicAt == {-1, 0, 1, 2, 3}

ResponseWith(wrongAt, b8, b9, rest) ==
  [i \in PIdx |->
     CASE i \in 0 .. 3 ->
            (IF i = wrongAt THEN 1 ELSE 0)
              + (CASE i = 0 -> BTP_START_1 [] i = 1 -> BTP_START_2
                   [] i = 2 -> BTP_IDENT_1 [] OTHER -> BTP_IDENT_2)
       [] i = 8 -> b8
       [] i = 9 -> b9
       [] OTHER -> rest]

\* function f was applied to arguments a: buf is the buffer after the call,
\* ok and val what the call returned
Applied(f, a, buf, ok, val) ==
  /\ pc' = "applied"
  /\ op' = f
  /\ args' = a
  /\ command' = buf
  /\ last' = [op |-> f, ok |-> ok, cause |-> "none", val |-> val]
  /\ UNCHANGED <<btSerial, status, lastError, sub, response, elapsed, offset,
                 linkUp, rx, inflight, devJob, faults, calls>>

\* a builder was applied; the record keeps what the buffer held before
Built(f, a, buf) ==
  /\ Applied(f, a, buf, TRUE, 0)
  /\ wire' = <<[kind |-> "buffer", pkt |-> command, n |-> BTP_PACKET_SIZE]>>

\* a function that only reads its buffer was applied
Read(f, a, buf, ok, val) ==
  /\ Applied(f, a, buf, ok, val)
  /\ UNCHANGED wire

BuildGetAccessoryInfo ==
  /\ pc = "codec"
  /\ \E slim \in BOOLEAN :
       Built("buildGetAccessoryInfoPacket", [isSlim |-> slim],
               buildGetAccessoryInfoPacket(command, slim))
  /\ UNCHANGED client

BuildGetBatteryLevel ==
  /\ pc = "codec"
  /\ Built("buildGetBatteryLevelPacket", NoArgs, buildGetBatteryLevelPacket(command))
  /\ UNCHANGED client

BuildGetPageType ==
  /\ pc = "codec"
  /\ Built("buildGetPageTypePacket", NoArgs, buildGetPageTypePacket(command))
  /\ UNCHANGED client

BuildGetPrintCount ==
  /\ pc = "codec"
  /\ Built("buildGetPrintCountPacket", NoArgs, buildGetPrintCountPacket(command))
  /\ UNCHANGED client

BuildGetAutoPowerOff ==
  /\ pc = "codec"
  /\ Built("buildGetAutoPowerOffPacket", NoArgs, buildGetAutoPowerOffPacket(command))
  /\ UNCHANGED client

BuildPrintReady ==
  /\ pc = "codec"
  /\ \E size \in ImageSizes, copies \in CopiesValues :
       Built("buildPrintReadyPacket", [imageSize |-> size, numCopies |-> copies],
               buildPrintReadyPacket(command, size, copies))
  /\ UNCHANGED client

BuildStartOfSendAck ==
  /\ pc = "codec"
  /\ Built("buildStartOfSendAck", NoArgs, buildStartOfSendAck(command))
  /\ UNCHANGED client

BuildEndOfReceivedAck ==
  /\ pc = "codec"
  /\ Built("buildEndOfReceivedAck", NoArgs, buildEndOfReceivedAck(command))
  /\ UNCHANGED client

BuildErrorMessageAck ==
  /\ pc = "codec"
  /\ \E ec \in Bytes :
       Built("buildErrorMessageAck", [errorCode |-> ec],
               buildErrorMessageAck(command, ec))
  /\ UNCHANGED client

\* parseResponse(response, &errorCode): the buffer is the response
ParseResponse ==
  /\ pc = "codec"
  /\ \E w \in WrongMagicAt, b8 \in Bytes, rest \in {0, 255} :
       LET r == ResponseWith(w, b8, rest, rest) IN
         Read("parseResponse", NoArgs, r, parseResponse(r).ok, parseResponse(r).errorCode)
  /\ UNCHANGED client

ParsePrintCount ==
  /\ pc = "codec"
  /\ \E b8 \in Bytes, b9 \in Bytes, rest \in {0, 255} :
       LET r == ResponseWith(-1, b8, b9, rest) IN
         Read("parsePrintCount", NoArgs, r, TRUE, parsePrintCount(r))
  /\ UNCHANGED client

GetErrorString ==
  /\ pc = "codec"
  /\ \E ec \in Bytes :
       Read("getErrorString", [errorCode |-> ec], command, TRUE, getErrorString(ec))
  /\ UNCHANGED client

(* the timeout test of receiveResponse on the 32-bit millis() counter *)
\* a uint32_t as its two 16-bit halves <<high, low>>
U32(n) == <<n \div 65536, n % 65536>>

\* values of millis() at startTime = millis(): near 0, mid-range, and within
\* the timeout of the wraparound at 2^32
StartTimes ==
  {<<0, 0>>, <<0, 1>>, <<32768, 0>>} \cup
  {<<65535, 65536 - d>> : d \in {1, 2, 10, 4999, 5000, 5001, 5010}}

\* true times since startTime at which the test is made, in ms, below 2^32
TrueElapsed ==
  {U32(t) : t \in {0, 10} \cup
                   (KODAK_COMMAND_TIMEOUT_MS - 10 .. KODAK_COMMAND_TIMEOUT_MS + 10)}
  \cup {<<32767, 65535>>, <<32768, 0>>, <<65535, 65535>>}

\* millis() when t ms have passed since it returned start: the counter wraps
\* at 2^32
MillisAfter(start, t) ==
  LET lo == start[2] + t[2]
      hi == start[1] + t[1] + lo \div 65536
  IN  <<hi % 65536, lo % 65536>>

\* millis() - startTime as a difference that is not reduced to 32 bits
MillisDiffWide(now, startTime) ==
  LET lo == now[2] - startTime[2]
      hi == now[1] - startTime[1] - (IF lo < 0 THEN 1 ELSE 0)
  IN  <<hi, lo % 65536>>

\* millis() - startTime in uint32_t
MillisDiff(now, startTime) ==
  LET lo == now[2] - startTime[2]
      hi == now[1] - startTime[1] - (IF lo < 0 THEN 1 ELSE 0)
  IN  <<hi % 65536, lo % 65536>>

\* a > b on uint32_t
GreaterU32(a, b) == a[1] > b[1] \/ (a[1] = b[1] /\ a[2] > b[2])

ReceiveTimeoutTest ==
  /\ pc = "codec"
  /\ \E start \in StartTimes, t \in TrueElapsed :
       Read("receiveResponse",
            [startTime |-> start, trueElapsed |-> t, now |-> MillisAfter(start, t),
             timeoutMs |-> KODAK_COMMAND_TIMEOUT_MS],
            command, TRUE,
            IF GreaterU32(MillisDiff(MillisAfter(start, t), start),
                          U32(KODAK_COMMAND_TIMEOUT_MS))
              THEN 1 ELSE 0)
  /\ UNCHANGED client

(* the battery decode of the Canon Ivy 2 protocol (docs/PROTOCOL.md 7.4) *)
\* the loop: bits += "1" if ((value >> i) & 1) == 1 else "0", i = 0 .. 5
BitString(value) == [i \in 1 .. 6 |-> (value \div (2 ^ (i - 1))) % 2]

\* bits[::-1]
Reversed(bits) == [i \in 1 .. Len(bits) |-> bits[Len(bits) + 1 - i]]

\* int(bits, 2)
RECURSIVE IntBase2(_)
IntBase2(bits) ==
  IF bits = <<>> THEN 0
  ELSE 2 * IntBase2(SubSeq(bits, 1, Len(bits) - 1)) + bits[Len(bits)]

extract_6_bit_reversed(value) == IntBase2(Reversed(BitString(value)))

ExtractBattery ==
  /\ pc = "codec"
  /\ \E v \in 0 .. MaxRawValue :
       Read("extract_6_bit_reversed", [value |-> v], command, TRUE,
            extract_6_bit_reversed(v))
  /\ UNCHANGED client

InitCodec ==
  /\ btSerial = "null"
  /\ status = ZeroStatus
  /\ lastError = ""
  /\ pc = "codec"
  /\ op = "none"
  /\ sub = "none"
  /\ args = NoArgs
  /\ command \in DirtyBuffers
  /\ response = <<>>
  /\ elapsed = 0
  /\ offset = 0
  /\ last = NoResult
  /\ wire = <<>>
  /\ linkUp = FALSE
  /\ rx = <<>>
  /\ inflight = <<>>
  /\ devJob = NoJob
  /\ faults = 0
  /\ calls = 0
  /\ client = NoClient

NextCodec ==
  \/ BuildGetAccessoryInfo
  \/ BuildGetBatteryLevel
  \/ BuildGetPageType
  \/ BuildGetPrintCount
  \/ BuildGetAutoPowerOff
  \/ BuildPrintReady
  \/ BuildStartOfSendAck
  \/ BuildEndOfReceivedAck
  \/ BuildErrorMessageAck
  \/ ParseResponse
  \/ ParsePrintCount
  \/ GetErrorString
  \/ ExtractBattery
  \/ ReceiveTimeoutTest

SpecCodec == InitCodec /\ [][NextCodec]_vars

(* ------------------------------------------------------------------ *)
(* initialize, getBatteryLevel and printImage on a connected printer   *)
(* ------------------------------------------------------------------ *)
\* begin() and connect(address) have succeeded; two more calls follow
InitSession ==
  /\ btSerial = "obj"
  /\ status = [ZeroStatus EXCEPT !.is_connected = TRUE]
  /\ lastError = ""
  /\ pc = "idle"
  /\ op = "connect"
  /\ sub = "none"
  /\ args = NoArgs
  /\ command = NoPacket
  /\ response = <<>>
  /\ elapsed = 0
  /\ offset = 0
  /\ last = [op |-> "connect", ok |-> TRUE, cause |-> "none", val |-> 0]
  /\ wire = <<>>
  /\ linkUp = TRUE
  /\ rx = <<>>
  /\ inflight = <<>>
  /\ devJob = NoJob
  /\ faults = 0
  /\ calls = MaxCalls - 2
  /\ client = NoClient

NextSession ==
  \/ Initialize
  \/ GetBatteryLevel
  \/ PrintImage
  \/ SendCommand
  \/ ReceiveResponse
  \/ InitializeDone
  \/ GetBatteryLevelDone
  \/ CheckPaperStatusDone
  \/ PrintReadyDone
  \/ TransferChunk
  \/ LinkDrop

SpecSession == InitSession /\ [][NextSession]_vars

(* ------------------------------------------------------------------ *)
(* ThreadedClient: the I/O thread and the auto-disconnect timer        *)
(* ------------------------------------------------------------------ *)
AUTO_DISCONNECT_TIMEOUT == 30

\* position pc of thread t
At(t, p) == client.threads[t].pc = p

Jump(t, p) == [client.threads EXCEPT ![t].pc = p]

\* thread t calls a method that starts at p and returns to r
CallFrom(t, p, r) == [client.threads EXCEPT ![t] = [pc |-> p, ret |-> r]]

Returned_(t) == [client.threads EXCEPT ![t] = [pc |-> @.ret, ret |-> "none"]]

\* a cancel() that has no effect
NotCancelled(timers, id) == timers

\* Timer.cancel(): a timer that has not fired will not fire; one that has
\* fired is not affected
Cancelled(timers, id) ==
  IF id = 0 THEN timers
  ELSE [timers EXCEPT ![id].state =
          IF @ \in {"created", "waiting"} THEN "cancelled" ELSE @]

\* timers that were started and have neither fired nor been cancelled
Pending == {k \in DOMAIN client.timers : client.timers[k].state = "waiting"}

\* ThreadedClient.connect, step by step, in the caller's thread
ClientConnect ==
  /\ \/ /\ At("main", "new")
        /\ client' = [client EXCEPT !.connected = TRUE,
                                    !.threads = Jump("main", "connected")]
     \/ /\ At("main", "connected")
        /\ client' = [client EXCEPT !.alive = TRUE,
                                    !.threads = CallFrom("main", "reset", "start")]
     \/ /\ At("main", "start")
        /\ client' = [client EXCEPT
                        !.threads = [Jump("main", "ready") EXCEPT !["io"].pc = "loop"]]
  /\ UNCHANGED kodakVars

\* ThreadedClient._reset_disconnect_timer, step by step, in the thread that
\* called it: cancel the timer there is, make a new one, start it
ResetDisconnectTimer ==
  /\ \E t \in {"main", "io"} :
       \/ /\ At(t, "reset")
          /\ client' = [client EXCEPT
                          !.timers = Cancelled(client.timers, client.disconnect_timer),
                          !.threads = Jump(t, "make")]
       \/ /\ At(t, "make")
          /\ Len(client.timers) < MaxTimers
          /\ client' = [client EXCEPT
                          !.timers = Append(@, [state |-> "created", age |-> 0]),
                          !.disconnect_timer = Len(client.timers) + 1,
                          !.threads = Jump(t, "arm")]
       \/ /\ At(t, "arm")
          /\ client' = [client EXCEPT
                          !.timers[client.disconnect_timer].state =
                             IF @ = "created" THEN "waiting" ELSE @,
                          !.threads = Returned_(t)]
  /\ UNCHANGED kodakVars

\* ThreadedClient.disconnect, step by step, in the thread that called it:
\* alive.clear(), cancel the timer, transport.disconnect(), join
ClientDisconnect ==
  /\ \E t \in Threads :
       \/ /\ At(t, "clear")
          /\ client' = [client EXCEPT !.alive = FALSE, !.threads = Jump(t, "cancel")]
       \/ /\ At(t, "cancel")
          /\ client' = [client EXCEPT
                          !.timers = Cancelled(client.timers, client.disconnect_timer),
                          !.threads = Jump(t, "close")]
       \/ /\ At(t, "close")
          /\ client' = [client EXCEPT !.connected = FALSE, !.threads = Jump(t, "join")]
       \/ /\ At(t, "join")
          \* join raises RuntimeError, which is caught, in the I/O thread itself
          \* and before the I/O thread was started; otherwise it waits
          /\ t = "io" \/ client.threads["io"].pc \in {"unstarted", "dead"}
          /\ client' = [client EXCEPT !.threads = Returned_(t)]
  /\ UNCHANGED kodakVars

\* the caller calls disconnect()
CallDisconnect ==
  /\ At("main", "ready")
  /\ client' = [client EXCEPT !.threads = CallFrom("main", "clear", "closed")]
  /\ UNCHANGED kodakVars

\* the caller puts a message into outbound_q
QueueMessage ==
  /\ At("main", "ready")
  /\ client.puts < MaxTimers - 1
  /\ client' = [client EXCEPT !.outbound_q = @ + 1, !.puts = @ + 1]
  /\ UNCHANGED kodakVars

\* ThreadedClient.run, step by step, in the I/O thread
ClientRun ==
  /\ \/ /\ At("io", "loop")
        /\ client' = [client EXCEPT
                        !.threads = Jump("io", IF client.alive THEN "health" ELSE "dead")]
     \/ /\ At("io", "health")
        /\ client' = [client EXCEPT
                        !.threads = IF ~client.connected
                                      THEN CallFrom("io", "clear", "dead")
                                      ELSE Jump("io", "get")]
     \/ /\ At("io", "get")
        /\ client' = IF client.outbound_q > 0
                       THEN [client EXCEPT !.outbound_q = @ - 1,
                                           !.threads = Jump("io", "send")]
                       ELSE [client EXCEPT !.threads = Jump("io", "recv")]
     \/ /\ At("io", "send")
        \* transport.send raises when the transport is closed, and run does
        \* not catch it
        /\ client' = [client EXCEPT
                        !.threads = IF client.connected
                                      THEN CallFrom("io", "reset", "recv")
                                      ELSE Jump("io", "dead")]
     \/ /\ At("io", "recv")
        /\ client' = [client EXCEPT !.threads = Jump("io", "loop")]
  /\ UNCHANGED kodakVars

\* a threading.Timer that was started auto_disconnect_timeout seconds ago and
\* not cancelled calls self.disconnect in its own thread
TimerFire ==
  /\ \E k \in Pending :
       /\ client.timers[k].age >= AUTO_DISCONNECT_TIMEOUT
       /\ client' = [client EXCEPT
                       !.timers[k].state = "fired",
                       !.threads = CallFrom(TimerName[k], "clear", "done")]
  /\ UNCHANGED kodakVars

\* time passes, but not beyond the moment a pending timer is due
ClockTick ==
  /\ Pending # {}
  /\ \A k \in Pending : client.timers[k].age < AUTO_DISCONNECT_TIMEOUT
  /\ client' = [client EXCEPT
                  !.timers = [k \in DOMAIN client.timers |->
                                IF k \in Pending
                                  THEN [client.timers[k] EXCEPT !.age = @ + TickSeconds]
                                  ELSE client.timers[k]]]
  /\ UNCHANGED kodakVars

\* the link is lost: transport.is_connected() becomes false
TransportLost ==
  /\ client.connected
  /\ ~client.lost
  /\ client' = [client EXCEPT !.connected = FALSE, !.lost = TRUE]
  /\ UNCHANGED kodakVars

InitClient ==
  /\ btSerial = "null"
  /\ status = ZeroStatus
  /\ lastError = ""
  /\ pc = "idle"
  /\ op = "none"
  /\ sub = "none"
  /\ args = NoArgs
  /\ command = NoPacket
  /\ response = <<>>
  /\ elapsed = 0
  /\ offset = 0
  /\ last = NoResult
  /\ wire = <<>>
  /\ linkUp = FALSE
  /\ rx = <<>>
  /\ inflight = <<>>
  /\ devJob = NoJob
  /\ faults = 0
  /\ calls = 0
  /\ client = NoClient

NextClient ==
  \/ ClientConnect
  \/ ResetDisconnectTimer
  \/ ClientDisconnect
  \/ CallDisconnect
  \/ QueueMessage
  \/ ClientRun
  \/ TimerFire
  \/ ClockTick
  \/ TransportLost

SpecClient == InitClient /\ [][NextClient]_vars

\* the threads run and the clock advances: the caller finishes connect, a
\* thread inside _reset_disconnect_timer or disconnect goes on, a due timer
\* fires
SpecClientLive ==
  /\ SpecClient
  /\ WF_vars(ClientConnect)
  /\ WF_vars(ResetDisconnectTimer)
  /\ WF_vars(ClientDisconnect)
  /\ WF_vars(ClientRun)
  /\ WF_vars(TimerFire)
  /\ WF_vars(ClockTick)

(* ------------------------------------------------------------------ *)
(* connectByName                                                       *)
(* ------------------------------------------------------------------ *)
\* strings are sequences of characters
\* a const char* printerName: nullptr, or a string
NullName == [null |-> TRUE, chars |-> <<>>]

\* printerName arguments
SearchNames ==
  {NullName} \cup
  {[null |-> FALSE, chars |-> c] :
     c \in {<<>>, <<"s">>, <<"S">>, <<"x", "S">>, <<"s", "x">>}}

\* names of discovered devices
ScanNames == {<<"S">>, <<"x", "s">>, <<"x">>}

\* getDevice(i): nullptr, or a device with a name; device i has address i
NoDevice == [null |-> TRUE, name |-> <<>>]

Devices == {NoDevice} \cup {[null |-> FALSE, name |-> n] : n \in ScanNames}

\* what discover() returns: nullptr, or up to MaxDevices devices in scan order
NullScan == [null |-> TRUE, devices |-> <<>>]

Scans ==
  {NullScan} \cup
  {[null |-> FALSE, devices |-> d] :
     d \in UNION {[1 .. n -> Devices] : n \in 0 .. MaxDevices}}

tolower(c) == CASE c = "S" -> "s" [] c = "X" -> "x" [] OTHER -> c

\* the inner loop over k: name[j + k] against searchLower[k], j from 0
SubMatch(name, search, j) ==
  \A k \in 0 .. Len(search) - 1 : tolower(name[j + k + 1]) = tolower(search[k + 1])

\* for (j = 0; j + searchLen <= nameLen && !match; j++)
NameMatches(name, search) ==
  \E j \in 0 .. Len(name) - Len(search) : SubMatch(name, search, j)

\* const char* name = device->getName().c_str(): getName() returns its string
\* by value, so name points into a temporary that is destroyed at the end of
\* the declaration; the loop reads it afterwards (and after the temporaries of
\* getAddress().toString() were made in its place).  What it reads is the
\* name, if the storage was left alone, or whatever replaced it
DanglingReadsOf(deviceName) == {deviceName, <<>>, <<"x">>}

\* the names the loop reads, device by device (nothing for a null device)
SeenNames(devices) ==
  {seen \in [1 .. Len(devices) -> ScanNames \cup {<<>>}] :
     \A i \in 1 .. Len(devices) :
       IF devices[i].null THEN seen[i] = <<>>
       ELSE seen[i] \in DanglingReadsOf(devices[i].name)}

\* the first device, in scan order, that is not null and matches; 0 if none
RECURSIVE FirstMatch(_, _, _, _)
FirstMatch(devices, seen, search, i) ==
  IF i > Len(devices) THEN 0
  ELSE IF ~devices[i].null /\ NameMatches(seen[i], search) THEN i
  ELSE FirstMatch(devices, seen, search, i + 1)

\* KodakStepPrinter::connectByName; the record of the call has the address
\* given to btSerial->connect, 0 if connect was not called
ConnectByName ==
  /\ \E printerName \in SearchNames, scan \in Scans :
       /\ Enter("connectByName", [printerName |-> printerName, scan |-> scan])
       /\ IF btSerial = "null"
            THEN /\ lastError' = "Bluetooth not initialized. Call begin() first."
                 /\ Return(FALSE, "nobt", 0)
                 /\ UNCHANGED <<status, linkUp, rx, inflight>>
          ELSE IF printerName.null
            THEN /\ lastError' = "Printer name cannot be null"
                 /\ Return(FALSE, "args", 0)
                 /\ UNCHANGED <<status, linkUp, rx, inflight>>
          ELSE IF scan.null
            THEN /\ lastError' = "Bluetooth scan failed"
                 /\ Return(FALSE, "scan", 0)
                 /\ UNCHANGED <<status, linkUp, rx, inflight>>
          ELSE \E seen \in SeenNames(scan.devices) :
                 LET target == FirstMatch(scan.devices, seen, printerName.chars, 1) IN
                   IF target = 0
                     THEN /\ lastError' = "Printer not found in scan"
                          /\ Return(FALSE, "notfound", 0)
                          /\ UNCHANGED <<status, linkUp, rx, inflight>>
                     ELSE \E outcome \in {"refused", "lost", "ok"} :
                            CASE outcome = "refused" ->
                                   /\ lastError' = "Failed to connect to printer"
                                   /\ Return(FALSE, "connect", target)
                                   /\ UNCHANGED <<status, linkUp, rx, inflight>>
                              [] outcome = "lost" ->
                                   /\ lastError' = "Connection lost after connect"
                                   /\ Return(FALSE, "lost", target)
                                   /\ linkUp' = FALSE
                                   /\ rx' = rx
                                   /\ inflight' = <<>>
                                   /\ UNCHANGED status
                              [] OTHER ->
                                   /\ linkUp' = TRUE
                                   /\ status' = [status EXCEPT !.is_connected = TRUE]
                                   /\ Delay(1000)
                                   /\ Return(TRUE, "none", target)
                                   /\ UNCHANGED lastError
  /\ UNCHANGED <<btSerial, faults>>
  /\ UNCHANGED client

\* after the constructor, with room for begin and two calls of connectByName
InitScan ==
  /\ btSerial = "null"
  /\ status = ZeroStatus
  /\ lastError = ""
  /\ pc = "idle"
  /\ op = "none"
  /\ sub = "none"
  /\ args = NoArgs
  /\ command = NoPacket
  /\ response = <<>>
  /\ elapsed = 0
  /\ offset = 0
  /\ last = NoResult
  /\ wire = <<>>
  /\ linkUp = FALSE
  /\ rx = <<>>
  /\ inflight = <<>>
  /\ devJob = NoJob
  /\ faults = 0
  /\ calls = 0
  /\ client = NoClient

NextScan ==
  \/ Begin
  \/ ConnectByName
  \/ Disconnect

SpecScan == InitScan /\ [][NextScan]_vars

(* ------------------------------------------------------------------ *)
(* The connected flag: begin, connect, disconnect, link loss, a command *)
(* ------------------------------------------------------------------ *)
\* after the constructor, with room for four calls
InitLink ==
  /\ btSerial = "null"
  /\ status = ZeroStatus
  /\ lastError = ""
  /\ pc = "idle"
  /\ op = "none"
  /\ sub = "none"
  /\ args = NoArgs
  /\ command = NoPacket
  /\ response = <<>>
  /\ elapsed = 0
  /\ offset = 0
  /\ last = NoResult
  /\ wire = <<>>
  /\ linkUp = FALSE
  /\ rx = <<>>
  /\ inflight = <<>>
  /\ devJob = NoJob
  /\ faults = 0
  /\ calls = MaxCalls - 4
  /\ client = NoClient

NextLink ==
  \/ Begin
  \/ Connect
  \/ Disconnect
  \/ GetBatteryLevel
  \/ SendCommand
  \/ ReceiveResponse
  \/ GetBatteryLevelDone
  \/ LinkDrop

SpecLink == InitLink /\ [][NextLink]_vars

(* ------------------------------------------------------------------ *)
(* PRINT_READY as printImage writes it and as the builder encodes it   *)
(* ------------------------------------------------------------------ *)
InitPrintReady == InitPrint \/ InitCodec

NextPrintReady ==
  \/ PrintImageAtLimit
  \/ SendCommand
  \/ ReceiveResponse
  \/ GetBatteryLevelDone
  \/ CheckPaperStatusDone
  \/ PrintReadyDone
  \/ TransferChunk
  \/ BuildPrintReady

SpecPrintReady == InitPrintReady /\ [][NextPrintReady]_vars

(* ------------------------------------------------------------------ *)
(* The Canon Ivy 2 printer: status and print                           *)
(* ------------------------------------------------------------------ *)

PRINT_BATTERY_MIN == 30
PRINT_DATA_CHUNK == 990
CANON_CMD_GET_STATUS == 257          \* 0x0101
CANON_CMD_SETTING_ACCESSORY == 259   \* 0x0103
CANON_CMD_PRINT_READY == 769         \* 0x0301
CanonChunkDelayMs == 20

\* what _perform_task(GetStatusTask()) can return
StatusTuples ==
  [error_code : {0, 5}, battery : {20, 29, 30, 63}, usb : BOOLEAN,
   cover_open : BOOLEAN, no_paper : BOOLEAN, wrong_sheet : BOOLEAN]

\* image lengths given to print, in bytes
CanonImageSizes == {1, PRINT_DATA_CHUNK, PRINT_DATA_CHUNK + 1, 2 * PRINT_DATA_CHUNK + 10}

\* get_status's error that takes a wrong smart sheet for no error
StatusErrorNoSheet(raw) ==
  IF raw.cover_open THEN "Cover open"
  ELSE IF raw.no_paper THEN "No paper"
  ELSE IF raw.error_code # 0 THEN "Error code"
  ELSE "None"

\* the error get_status derives from the raw status
StatusError(raw) ==
  IF raw.cover_open THEN "Cover open"
  ELSE IF raw.no_paper THEN "No paper"
  ELSE IF raw.wrong_sheet THEN "Wrong smart sheet"
  ELSE IF raw.error_code # 0 THEN "Error code"
  ELSE "None"

\* CanonIvy2Printer.get_status: the PrinterStatus built from the raw status
get_status(raw) ==
  [battery_level |-> raw.battery,
   is_ready |-> StatusError(raw) = "None" /\ raw.battery >= PRINT_BATTERY_MIN,
   error |-> StatusError(raw),
   is_cover_open |-> raw.cover_open]

\* _check_print_worthiness: the error print refuses with, "None" to go on
check_print_worthiness(st) ==
  IF st.error # "None" THEN st.error
  ELSE IF st.battery_level < PRINT_BATTERY_MIN THEN "Low battery"
  ELSE "None"

CanonCmd(code) == [kind |-> "cmd", code |-> code]

CanonReturn(ok, cause) ==
  /\ pc' = "idle"
  /\ last' = [op |-> "print", ok |-> ok, cause |-> cause, val |-> 0]

CanonUnchanged ==
  UNCHANGED <<btSerial, status, lastError, sub, command, response, linkUp, rx,
              inflight, devJob, faults>>

\* print is called: step 1, status(), sends GetStatus
CanonPrint ==
  /\ pc = "idle"
  /\ calls < MaxCalls
  /\ calls' = calls + 1
  /\ op' = "print"
  /\ \E n \in CanonImageSizes : args' = [image_data |-> n]
  /\ wire' = <<CanonCmd(CANON_CMD_GET_STATUS)>>
  /\ pc' = "status"
  /\ elapsed' = 0
  /\ offset' = 0
  /\ UNCHANGED last
  /\ CanonUnchanged
  /\ UNCHANGED client

\* the GetStatus response: print refuses, or goes on to step 2 and sends
\* SettingAccessory (read)
CanonStatusResponse ==
  /\ pc = "status"
  /\ \E raw \in StatusTuples :
       LET refusal == check_print_worthiness(get_status(raw))
           got == Append(wire, [kind |-> "status", raw |-> raw])
       IN  IF refusal # "None"
           THEN /\ CanonReturn(FALSE, refusal)
                /\ wire' = got
           ELSE /\ pc' = "setting"
                /\ wire' = Append(got, CanonCmd(CANON_CMD_SETTING_ACCESSORY))
                /\ UNCHANGED last
  /\ UNCHANGED <<op, args, elapsed, offset, calls>>
  /\ CanonUnchanged
  /\ UNCHANGED client

\* the SettingAccessory response is advisory: step 3 sends PrintReady
CanonSettingResponse ==
  /\ pc = "setting"
  /\ pc' = "ready"
  /\ wire' = Append(wire, CanonCmd(CANON_CMD_PRINT_READY))
  /\ UNCHANGED <<op, args, elapsed, offset, calls, last>>
  /\ CanonUnchanged
  /\ UNCHANGED client

\* the PrintReady response: a non-zero error code fails the print
CanonReadyResponse ==
  /\ pc = "ready"
  /\ \E err \in {0, 1} :
       IF err # 0
       THEN CanonReturn(FALSE, "Print ready refused")
       ELSE pc' = "xfer" /\ UNCHANGED last
  /\ UNCHANGED <<op, args, wire, elapsed, offset, calls>>
  /\ CanonUnchanged
  /\ UNCHANGED client

\* step 4: one chunk of at most 990 bytes, then 20 ms
CanonTransferChunk ==
  /\ pc = "xfer"
  /\ LET n == Min(PRINT_DATA_CHUNK, args.image_data - offset)
     IN  /\ wire' = Append(wire, [kind |-> "data", off |-> offset, n |-> n,
                                  at |-> elapsed])
         /\ offset' = offset + n
         /\ elapsed' = Sleep(elapsed, CanonChunkDelayMs)
         /\ IF offset + n >= args.image_data
            THEN CanonReturn(TRUE, "None")
            ELSE UNCHANGED <<pc, last>>
  /\ UNCHANGED <<op, args, calls>>
  /\ CanonUnchanged
  /\ UNCHANGED client

InitCanon ==
  /\ btSerial = "null"
  /\ status = ZeroStatus
  /\ lastError = ""
  /\ pc = "idle"
  /\ op = "none"
  /\ sub = "none"
  /\ args = NoArgs
  /\ command = NoPacket
  /\ response = <<>>
  /\ elapsed = 0
  /\ offset = 0
  /\ last = NoResult
  /\ wire = <<>>
  /\ linkUp = TRUE
  /\ rx = <<>>
  /\ inflight = <<>>
  /\ devJob = NoJob
  /\ faults = 0
  /\ calls = 0
  /\ client = NoClient

NextCanon ==
  \/ CanonPrint
  \/ CanonStatusResponse
  \/ CanonSettingResponse
  \/ CanonReadyResponse
  \/ CanonTransferChunk

SpecCanon == InitCanon /\ [][NextCanon]_vars

(* ------------------------------------------------------------------ *)
(* Properties                                                          *)
(* ------------------------------------------------------------------ *)
\* what the record of the current call says
IsCmdEntry(e, c6, c7) ==
  e.kind = "cmd" /\ e.pkt[6] = c6 /\ e.pkt[7] = c7

IsRespEntry(e) == e.kind = "resp" /\ e.n = BTP_PACKET_SIZE

\* image bytes written by entries a .. b of the record
RECURSIVE ImageBytesIn(_, _, _)
ImageBytesIn(w, a, b) ==
  IF a > b THEN 0
  ELSE IF a = b THEN (IF w[a].kind = "data" THEN w[a].n ELSE 0)
  ELSE ImageBytesIn(w, a, (a + b) \div 2) + ImageBytesIn(w, (a + b) \div 2 + 1, b)

ImageBytes(w) == ImageBytesIn(w, 1, Len(w))

CmdEntries(w) == {i \in DOMAIN w : w[i].kind = "cmd"}

DataEntries(w) == {i \in DOMAIN w : w[i].kind = "data"}

Returned(o) == pc = "idle" /\ last.op = o

\* printImage has read the response to its GetAccessoryInfo command
PrintReadBattery ==
  /\ op = "printImage"
  /\ Len(wire) >= 2
  /\ IsCmdEntry(wire[1], 1, 0)
  /\ IsRespEntry(wire[2])

\* C1: in printImage, a battery value below 30 in byte 12 of the
\* GetAccessoryInfo response just read makes printImage return failure with
\* "Battery too low to print", and after that response nothing more is written
\* (no GetPageType packet, no PrintReady packet, no image byte); a value of
\* exactly 30 is not refused for the battery.
C1_BatteryBelow30Refused ==
  PrintReadBattery =>
    /\ wire[2].pkt[12] < 30 =>
         /\ Len(wire) = 2
         /\ pc \in {"parse", "idle"}
         /\ pc = "idle" =>
              /\ ~last.ok
              /\ last.cause = "battery"
              /\ lastError = "Battery too low to print"
    /\ wire[2].pkt[12] >= 30 => ~(Returned("printImage") /\ last.cause = "battery")
    /\ (Returned("printImage") /\ last.cause = "battery") => wire[2].pkt[12] < 30

\* printImage has refused a battery of 29
C1_Witness ==
  /\ Returned("printImage")
  /\ PrintReadBattery
  /\ wire[2].pkt[12] = 29
  /\ ~last.ok
  /\ lastError = "Battery too low to print"

\* the first four bytes of a written packet are 1B 2A 43 41
HeaderOk(e) ==
  e.pkt[0] = 27 /\ e.pkt[1] = 42 /\ e.pkt[2] = 67 /\ e.pkt[3] = 65

\* the 24-bit size field of a PRINT_READY packet
SizeField(e) == e.pkt[8] * 65536 + e.pkt[9] * 256 + e.pkt[10]

WholeCmd(e, c6, c7) == IsCmdEntry(e, c6, c7) /\ e.n = 34 /\ HeaderOk(e)

\* C2: a successful printImage(jpeg, size, copies) has written exactly: the
\* GetAccessoryInfo packet, the GetPageType packet, the PrintReady(size,
\* copies) packet, then image chunks only, size bytes in all; at every moment
\* of a printImage call a command packet other than the first is written
\* only after the whole 34-byte response to the previous command has been
\* read, and once an image chunk is written nothing but image chunks follows.
C2_PrintWritesInLockstep ==
  op = "printImage" =>
    /\ \A i \in DOMAIN wire :
         /\ (wire[i].kind = "cmd" /\ i > 1) =>
              /\ i > 2
              /\ IsRespEntry(wire[i - 1])
              /\ wire[i - 2].kind = "cmd" /\ wire[i - 2].n = 34
         /\ wire[i].kind = "data" =>
              /\ i >= 7
              /\ \A j \in DOMAIN wire : j > i => wire[j].kind = "data"
    /\ (Returned("printImage") /\ last.ok) =>
         /\ Len(wire) >= 7
         /\ WholeCmd(wire[1], 1, 0)
         /\ IsRespEntry(wire[2])
         /\ WholeCmd(wire[3], 13, 0)
         /\ IsRespEntry(wire[4])
         /\ WholeCmd(wire[5], 0, 0)
         /\ SizeField(wire[5]) = args.dataSize
         /\ wire[5].pkt[11] = args.numCopies
         /\ IsRespEntry(wire[6])
         /\ \A i \in 7 .. Len(wire) : wire[i].kind = "data"
         /\ ImageBytes(wire) = args.dataSize

\* a printImage of more than one chunk has succeeded
C2_Witness ==
  /\ Returned("printImage")
  /\ last.ok
  /\ Len(wire) >= 8
  /\ args.dataSize > 4096

\* printImage has written its PRINT_READY packet
PrintReadyWritten ==
  /\ op = "printImage"
  /\ Len(wire) >= 5
  /\ WholeCmd(wire[5], 0, 0)

\* ... and has read the response to it
PrintReadyRead == PrintReadyWritten /\ Len(wire) >= 6 /\ IsRespEntry(wire[6])

\* a response with the magic 1B 2A 43 41 and byte 8 = 0
GoodResp(e) == HeaderOk(e) /\ e.pkt[8] = 0

\* the code parsed from a response: byte 8, or 0xFE when the magic is wrong
ParsedCode(e) == IF HeaderOk(e) THEN e.pkt[8] ELSE 254

C3_Gate ==
  op = "printImage" =>
    /\ DataEntries(wire) # {} => (PrintReadyRead /\ GoodResp(wire[6]))
    /\ (PrintReadyRead /\ ~GoodResp(wire[6])) =>
         /\ Len(wire) = 6
         /\ pc \in {"parse", "idle"}
         /\ pc = "idle" =>
              /\ ~last.ok
              /\ lastError = getErrorString(ParsedCode(wire[6]))
              /\ status.error_code = ParsedCode(wire[6])
    /\ (Returned("printImage") /\ PrintReadyWritten /\ last.cause = "timeout") =>
         /\ Len(wire) = 5
         /\ ~last.ok
         /\ lastError = "Failed to send PRINT_READY"

C3_TimeoutStep ==
  (pc = "recv" /\ sub = "printReady" /\ pc' = "idle" /\ last'.cause = "timeout") =>
    status'.error_code = status.error_code

\* C3 (as the code has it): image bytes are written only after a PrintReady
\* response with valid magic and byte 8 = 0 has been read.  A PrintReady
\* response with a non-zero byte 8 or a bad magic makes printImage fail with
\* the mapped error (getErrorString of byte 8, of 0xFE for a bad magic),
\* status.error_code holds that code and no image byte is written.  When the
\* PrintReady response times out, printImage fails with "Failed to send
\* PRINT_READY", status.error_code keeps the value it had and no image byte
\* is written.
C3_PrintReadyGate == []C3_Gate /\ [][C3_TimeoutStep]_vars

\* printImage has failed on a timeout of the PrintReady response
C3_Witness ==
  /\ Returned("printImage")
  /\ PrintReadyWritten
  /\ last.cause = "timeout"
  /\ DataEntries(wire) = {}

\* C3 as stated: whichever way the PrintReady step fails (non-zero byte 8,
\* bad magic, timeout), printImage fails with the mapped error, that is the
\* error string of the code in status.error_code, a code other than success,
\* and no image byte is written.
C3_AsStated ==
  /\ op = "printImage" /\ DataEntries(wire) # {} => (PrintReadyRead /\ GoodResp(wire[6]))
  /\ (/\ Returned("printImage")
      /\ \/ PrintReadyRead /\ ~GoodResp(wire[6])
         \/ PrintReadyWritten /\ last.cause = "timeout") =>
       /\ ~last.ok
       /\ DataEntries(wire) = {}
       /\ status.error_code # 0
       /\ lastError = getErrorString(status.error_code)

\* printImage has read the response to its GetPageType command
PageTypeRead ==
  /\ op = "printImage"
  /\ Len(wire) >= 4
  /\ WholeCmd(wire[3], 13, 0)
  /\ IsRespEntry(wire[4])

DataWrites(w) == SelectSeq(w, LAMBDA e : e.kind = "data")

\* C5: for a buffer of L bytes (1 <= L <= 2 MiB) and chunk size 4096, a
\* transferImageData whose writes all succeed has made exactly ceil(L / 4096)
\* writes; every write but the last is 4096 bytes long, the last is
\* L - 4096 * (n - 1) bytes long, between 1 and 4096; the lengths add up to
\* L; write i starts at buffer offset 4096 * (i - 1), so the writes in order
\* are the buffer.
C5_ChunkingExact ==
  (pc = "idle" /\ last.op = "printImage" /\ last.ok) =>
    LET L == args.dataSize
        d == DataWrites(wire)
        n == Len(d)
    IN  /\ L \in 1 .. 2097152
        /\ n = (L + 4095) \div 4096
        /\ \A i \in 1 .. n :
             /\ d[i].off = 4096 * (i - 1)
             /\ i < n => d[i].n = 4096
        /\ d[n].n = L - 4096 * (n - 1)
        /\ d[n].n \in 1 .. 4096
        /\ ImageBytes(d) = L

\* a buffer of 10000 bytes has gone out as 4096, 4096, 1808
C5_Witness ==
  /\ pc = "idle"
  /\ last.ok
  /\ args.dataSize = 10000
  /\ Len(DataWrites(wire)) = 3
  /\ DataWrites(wire)[1].n = 4096
  /\ DataWrites(wire)[2].n = 4096
  /\ DataWrites(wire)[3].n = 1808

\* C6: the 34 bytes a sendAndReceive call consumes as the response are, in
\* order, the 34 bytes of the printer's reply to the command written in that
\* same call: none of them was sent before that command was written (the
\* rest of a reply to an earlier command, a reply that came after its
\* timeout, a message the printer sent on its own).
C6_ResponseAnswersCommand ==
  pc = "parse" =>
    \A i \in 1 .. Len(response) : response[i].src = "cur" /\ response[i].k = i - 1

\* C7: after an operation has failed because fewer than 34 bytes arrived
\* within the command timeout, the connection is closed: the connected flag
\* is false and the transport is down, so that later operations are rejected
\* until a new connect.
C7_TimeoutClosesConnection ==
  (pc = "idle" /\ last.cause = "timeout") =>
    /\ ~status.is_connected
    /\ ~linkUp
    /\ ~isConnected

\* the methods that exchange a command for a response
ExchangeOps ==
  {"initialize", "getBatteryLevel", "getChargingStatus", "checkPaperStatus",
   "getPrintCount", "getAutoPowerOff", "printImage"}

\* C8: a response is handed to the caller only when exactly 34 bytes have
\* been read, whether they came in one piece or in several, and the last of
\* them was there no later than 5000 ms after the read started; a read that
\* times out makes the operation fail and hands over no packet, and an
\* operation that succeeds has read a whole 34-byte response to each command
\* it wrote.
C8_WholeResponseOrTimeout ==
  /\ pc = "parse" => (Len(response) = 34 /\ elapsed <= 5000)
  /\ \A i \in DOMAIN wire : wire[i].kind = "resp" => wire[i].n = 34
  /\ (pc = "idle" /\ last.cause = "timeout") =>
       /\ ~last.ok
       /\ wire # <<>>
       /\ wire[Len(wire)].kind = "cmd"
  /\ (pc = "idle" /\ last.op \in ExchangeOps /\ last.ok) =>
       /\ CmdEntries(wire) # {}
       /\ \A i \in CmdEntries(wire) :
            i < Len(wire) /\ wire[i + 1].kind = "resp" /\ wire[i + 1].n = 34

\* a reply that came in two pieces, the second one 5000 ms after the read
\* started, has been put together into one 34-byte response
C8_Witness ==
  /\ pc = "parse"
  /\ elapsed = 5000
  /\ Len(response) = 34
  /\ \A i \in 1 .. 34 : response[i].src = "cur" /\ response[i].k = i - 1

\* C9: an operation that has read a response whose bytes 0-3 are not
\* 1B 2A 43 41 fails, and gives no value to its caller.
C9_BadMagicFails ==
  (pc = "idle" /\ last.op \in ExchangeOps
     /\ \E i \in DOMAIN wire : wire[i].kind = "resp" /\ ~HeaderOk(wire[i])) =>
    ~last.ok

\* C10: printImage returns success only if the printer accepted the
\* PrintReady and all size bytes of the image were written after it; when
\* printImage returns failure the printer has not accepted a print job, and in
\* particular does not hold an accepted PrintReady with only a part of the
\* image.
C10_PrintIsTransactional ==
  Returned("printImage") =>
    /\ last.ok => (devJob.accepted /\ devJob.got = args.dataSize)
    /\ ~last.ok => (~devJob.accepted /\ devJob.got = 0)

\* the same operation written twice: the same command packet, or the image
\* bytes from the same offset
SameWrite(e, f) ==
  /\ e.kind = f.kind
  /\ e.kind = "cmd" => e.pkt = f.pkt
  /\ e.kind = "data" => e.off = f.off

\* C11: a printImage that has failed on a response timeout or on a failed
\* write has, before giving up, reopened the transport, sent GetAccessoryInfo
\* and made the failed write a second time: the write it failed on is in the
\* record of the call twice, with a GetAccessoryInfo command in between.
C11_TransientFailureRetried ==
  (/\ Returned("printImage")
   /\ ~last.ok
   /\ last.cause \in {"timeout", "send", "xfer"}
   /\ wire # <<>>
   /\ wire[Len(wire)].kind \in {"cmd", "data"}) =>
    \E i, j \in 1 .. Len(wire) :
      /\ i < j
      /\ j < Len(wire)
      /\ SameWrite(wire[i], wire[Len(wire)])
      /\ IsCmdEntry(wire[j], BTP_CMD_GET_ACCESSORY_INFO, 0)

\* a method that exchanges packets with the printer is called while
\* isConnected() is false: it returns false at once, with lastError set by
\* the entry checks, and has written nothing
C12_Step ==
  (/\ pc = "idle"
   /\ ~isConnected
   /\ calls' = calls + 1
   /\ op' \in ExchangeOps) =>
    /\ pc' = "idle"
    /\ last'.op = op'
    /\ ~last'.ok
    /\ wire' = <<>>
    /\ \/ lastError' = "Not connected to printer"
       \/ op' = "printImage" /\ last'.cause = "args" /\ lastError' # ""

\* C12: each of initialize, getBatteryLevel, getChargingStatus,
\* checkPaperStatus, getPrintCount, getAutoPowerOff and printImage, called
\* while the printer is not connected (before begin or connect, after
\* disconnect, after a loss of the link), returns failure with lastError set
\* and writes no byte to the transport.
C12_NotConnectedRejected == [][C12_Step]_vars

\* a method was called after the link was lost (is_connected still set) and
\* was rejected
C12_Witness ==
  /\ Returned(op)
  /\ op \in ExchangeOps
  /\ last.cause = "notconn"
  /\ lastError = "Not connected to printer"
  /\ btSerial = "obj"
  /\ status.is_connected
  /\ ~linkUp
  /\ wire = <<>>

\* C13: on a connection on which no GetAccessoryInfo handshake has succeeded
\* yet, nothing but GetAccessoryInfo goes out: while a status query or
\* printImage called right after a successful connect is running, the record
\* of the call holds no GetBatteryLevel, GetPageType, GetPrintCount,
\* GetAutoPowerOff or PrintReady command and no image data.
C13_HandshakeFirst ==
  (/\ pc # "idle"
   /\ op \in ExchangeOps \ {"initialize"}
   /\ last.op = "connect"
   /\ last.ok) =>
    \A i \in DOMAIN wire :
      \/ IsRespEntry(wire[i])
      \/ IsCmdEntry(wire[i], BTP_CMD_GET_ACCESSORY_INFO, 0)

\* initialize has returned after reading a response to its command
InitializeRead ==
  /\ Returned("initialize")
  /\ Len(wire) = 2
  /\ IsCmdEntry(wire[1], BTP_CMD_GET_ACCESSORY_INFO, 0)
  /\ IsRespEntry(wire[2])

\* C14: an initialize that has read a GetAccessoryInfo response with valid
\* magic and byte 8 = 0x02 (no paper) has succeeded, with the slim flag cached
\* and the no-paper code kept in the status; with valid magic and any other
\* non-zero byte 8 it has failed with that code.
C14_InitializeToleratesNoPaper ==
  (InitializeRead /\ MagicOk(wire[2].pkt) /\ wire[2].pkt[8] # BTP_ERR_SUCCESS) =>
    IF wire[2].pkt[8] = BTP_ERR_NO_PAPER
      THEN /\ last.ok
           /\ status.is_slim_device = args.isSlim
           /\ status.error_code = BTP_ERR_NO_PAPER
      ELSE /\ ~last.ok
           /\ status.error_code = wire[2].pkt[8]
           /\ lastError = getErrorString(wire[2].pkt[8])

\* C15: after a successful initialize(isSlim) the cached status holds the
\* battery from byte 12 of the GetAccessoryInfo response that initialize read,
\* and the slim flag equal to isSlim.
C15_InitializeCachesBattery ==
  (InitializeRead /\ last.ok) =>
    /\ status.battery_level = wire[2].pkt[12]
    /\ status.is_slim_device = args.isSlim

\* what getBatteryLevel and getChargingStatus write and report
C16_Reports ==
  /\ op = "getBatteryLevel" =>
       \A i \in CmdEntries(wire) :
         /\ wire[i].pkt[6] = BTP_CMD_GET_ACCESSORY_INFO
         /\ wire[i].pkt[6] # BTP_CMD_GET_BATTERY_LEVEL
  /\ (Returned("getBatteryLevel") /\ last.ok) =>
       /\ Len(wire) = 2
       /\ WholeCmd(wire[1], BTP_CMD_GET_ACCESSORY_INFO, 0)
       /\ IsRespEntry(wire[2])
       /\ last.val = wire[2].pkt[12]
       /\ status.battery_level = wire[2].pkt[12]
  /\ op = "getChargingStatus" =>
       \A i \in CmdEntries(wire) : wire[i].pkt[6] = BTP_CMD_GET_BATTERY_LEVEL
  /\ (Returned("getChargingStatus") /\ last.ok) =>
       /\ Len(wire) = 2
       /\ WholeCmd(wire[1], BTP_CMD_GET_BATTERY_LEVEL, 0)
       /\ IsRespEntry(wire[2])
       /\ (last.val = 1) = (wire[2].pkt[8] = 1)

\* no step of getChargingStatus changes the cached battery level
C16_ChargingStep ==
  op' = "getChargingStatus" => status'.battery_level = status.battery_level

\* C16: getBatteryLevel writes a GetAccessoryInfo packet (command 0x01, never
\* 0x0E) and on success reports byte 12 of the response in *level and in
\* status.battery_level; getChargingStatus writes a GetBatteryLevel packet
\* (0x0E) and reports true iff byte 8 of the response is 1, and leaves
\* status.battery_level as it was.
C16_BatteryFromAccessoryInfo == []C16_Reports /\ [][C16_ChargingStep]_vars

\* getBatteryLevel has reported the 30 of byte 12 (byte 8 was 0)
C16_Witness ==
  /\ Returned("getBatteryLevel")
  /\ last.ok
  /\ last.val = BTP_MIN_BATTERY_LEVEL
  /\ status.battery_level = BTP_MIN_BATTERY_LEVEL
  /\ wire[2].pkt[12] = BTP_MIN_BATTERY_LEVEL
  /\ wire[2].pkt[8] = 0

\* printImage is called with a null pointer, a size of 0 or a size above
\* 2 MiB: it returns false at once, nothing is written, the status is as before
C17_RejectStep ==
  (/\ pc = "idle"
   /\ calls' = calls + 1
   /\ op' = "printImage"
   /\ \/ args'.jpegData.null
      \/ args'.dataSize = 0
      \/ args'.dataSize > 2 * 1024 * 1024) =>
    /\ pc' = "idle"
    /\ last'.op = "printImage"
    /\ ~last'.ok
    /\ last'.cause = "args"
    /\ wire' = <<>>
    /\ status' = status

\* a non-null buffer of 1 .. 2 MiB bytes is not refused by these checks
C17_InRange ==
  (/\ op = "printImage"
   /\ ~args.jpegData.null
   /\ args.dataSize \in 1 .. 2 * 1024 * 1024) =>
    ~(pc = "idle" /\ last.cause = "args")

\* C17: printImage rejects an image whose size is 0 or greater than 2 MiB, or
\* whose data pointer is null, before writing anything to the transport and
\* without changing the cached status; an image of exactly 2 MiB passes this
\* check.
C17_ImageArgumentsChecked == []C17_InRange /\ [][C17_RejectStep]_vars

\* an image of exactly 2 MiB has been printed
C17_Witness ==
  /\ Returned("printImage")
  /\ last.ok
  /\ args.dataSize = 2 * 1024 * 1024
  /\ ImageBytes(wire) = 2 * 1024 * 1024

\* the buffer starts with FF D8 and ends with FF D9
StartsAndEndsAsJpeg(data, size) ==
  /\ ~data.null
  /\ size >= 4
  /\ data.head = <<255, 216>>
  /\ data.tail = <<255, 217>>

\* C18: a printImage whose buffer does not start with FF D8 or does not end
\* with FF D9 writes nothing to the transport and fails.
C18_NonJpegRejected ==
  (op = "printImage" /\ ~StartsAndEndsAsJpeg(args.jpegData, args.dataSize)) =>
    /\ wire = <<>>
    /\ pc = "idle" => ~last.ok

\* C19: printImage(jpeg, size, 0) returns failure, and no PrintReady packet
\* with byte 11 = 0 is written to the transport.
C19_ZeroCopiesRejected ==
  (op = "printImage" /\ args.numCopies = 0) =>
    /\ pc = "idle" => ~last.ok
    /\ \A i \in DOMAIN wire :
         ~(IsCmdEntry(wire[i], BTP_CMD_PRINT_READY, 0) /\ wire[i].pkt[11] = 0)

\* the length a write was made with: 34 for a command, for image bytes what
\* is left of the buffer from the offset, 4096 at most
Requested(e) ==
  IF e.kind = "cmd" THEN 34 ELSE Min(args.dataSize - e.off, 4096)

\* C20: a write that the transport accepted in full is a successful
\* sendCommand (the caller goes on), any other is a failed one: it is the last
\* write of the call and the call has returned failure; when it was a chunk
\* of the image, no later chunk is written and printImage has failed with
\* "Failed to transfer image data".
C20_WriteAllOrFail ==
  \A i \in DOMAIN wire :
    wire[i].kind \in {"cmd", "data"} =>
      IF wire[i].n = Requested(wire[i])
        THEN ~(i = Len(wire) /\ pc = "idle" /\ last.cause = "send")
             /\ (wire[i].kind = "data" /\ i = Len(wire) /\ pc = "idle") => last.ok
        ELSE /\ i = Len(wire)
             /\ pc = "idle"
             /\ last.op = op
             /\ ~last.ok
             /\ wire[i].kind = "cmd" => last.cause = "send"
             /\ wire[i].kind = "data" =>
                  /\ op = "printImage"
                  /\ lastError = "Failed to transfer image data"

\* the first chunk of a two-chunk image was written short: one image write,
\* and printImage has failed
C20_Witness ==
  /\ Returned("printImage")
  /\ ~last.ok
  /\ lastError = "Failed to transfer image data"
  /\ args.dataSize > 4096
  /\ Len(DataWrites(wire)) = 1
  /\ DataWrites(wire)[1].n = 2048
  /\ wire[Len(wire)].kind = "data"

\* a call of disconnect: it returns without an error; when the driver was
\* never begun, never connected or already disconnected, the transport's
\* disconnect is not called and nothing changes; after it, is_connected is
\* false wherever there is a transport
C21_Step ==
  (op' = "disconnect" /\ calls' = calls + 1) =>
    /\ pc' = "idle"
    /\ last'.ok
    /\ lastError' = lastError
    /\ btSerial' = btSerial
    /\ (btSerial = "null" \/ ~status.is_connected) =>
         /\ last'.cause = "none"
         /\ status' = status
         /\ linkUp' = linkUp
         /\ rx' = rx
         /\ inflight' = inflight
    /\ btSerial' = "null" \/ ~status'.is_connected
    /\ (pc = "idle" /\ last.op = "disconnect") =>
         /\ last'.cause = "none"
         /\ status' = status
         /\ linkUp' = linkUp

\* C21: disconnect is idempotent and safe in every state: called when never
\* begun, never connected or already disconnected it is a no-op that does not
\* fail; disconnect followed by disconnect calls the transport's disconnect
\* at most once and leaves the state of a single disconnect.
C21_DisconnectIdempotent == [][C21_Step]_vars

\* a second disconnect has returned on a driver that was connected: the
\* transport was not closed again
C21_Witness ==
  /\ Returned("disconnect")
  /\ last.cause = "none"
  /\ calls = 3
  /\ btSerial = "obj"
  /\ ~status.is_connected
  /\ ~linkUp

BuilderNames ==
  {"buildGetAccessoryInfoPacket", "buildGetBatteryLevelPacket", "buildGetPageTypePacket",
   "buildGetPrintCountPacket", "buildGetAutoPowerOffPacket", "buildPrintReadyPacket",
   "buildStartOfSendAck", "buildEndOfReceivedAck", "buildErrorMessageAck"}

\* the bytes after the magic that the protocol document gives a meaning to,
\* by command
DocumentedFields(f) ==
  CASE f = "buildGetAccessoryInfoPacket" -> {5, 6, 7}
    [] f = "buildPrintReadyPacket" -> {6, 7, 8, 9, 10, 11}
    [] f \in {"buildStartOfSendAck", "buildEndOfReceivedAck", "buildErrorMessageAck"} ->
         {6, 7, 8}
    [] OTHER -> {6, 7}

\* C22: every packet builder, for all arguments and whatever the buffer held
\* before, leaves a 34-byte buffer whose bytes 0-3 are 1B 2A 43 41 and whose
\* bytes outside the command's documented fields are all 0.
C22_BuildersZeroFill ==
  (pc = "applied" /\ op \in BuilderNames) =>
    /\ DOMAIN command = 0 .. 33
    /\ command[0] = 27 /\ command[1] = 42 /\ command[2] = 67 /\ command[3] = 65
    /\ \A i \in (4 .. 33) \ DocumentedFields(op) : command[i] = 0

\* PRINT_READY was built in a buffer that held 0xFF everywhere: byte 12 and
\* the last byte are 0 now
C22_Witness ==
  /\ pc = "applied"
  /\ op = "buildPrintReadyPacket"
  /\ \A i \in 0 .. 33 : wire[1].pkt[i] = 255
  /\ command[0] = 27
  /\ command[12] = 0
  /\ command[33] = 0

\* 1B 2A 43 41 00 00 00 00 00 C3 50 01 and 22 zero bytes
PrintReady50000 ==
  [i \in 0 .. 33 |->
     CASE i = 0 -> 27 [] i = 1 -> 42 [] i = 2 -> 67 [] i = 3 -> 65
       [] i = 9 -> 195 [] i = 10 -> 80 [] i = 11 -> 1
       [] OTHER -> 0]

\* C23: for every image size s <= 2^24 - 1 and every copies value,
\* buildPrintReadyPacket(s, copies) has bytes 6 and 7 equal to 0, bytes 8-10
\* holding s big-endian ((b8 << 16) | (b9 << 8) | b10 = s) and byte 11 equal
\* to copies; for s = 50000 and copies = 1 the packet is
\* 1B 2A 43 41 00 00 00 00 00 C3 50 01 followed by 22 zero bytes.
C23_PrintReadyEncodesSize ==
  (pc = "applied" /\ op = "buildPrintReadyPacket" /\ args.imageSize <= 16777215) =>
    /\ command[6] = 0
    /\ command[7] = 0
    /\ \A i \in 8 .. 10 : command[i] \in 0 .. 255
    /\ command[8] * 65536 + command[9] * 256 + command[10] = args.imageSize
    /\ command[11] = args.numCopies
    /\ (args.imageSize = 50000 /\ args.numCopies = 1) => command = PrintReady50000

\* the packet for 50000 bytes and one copy was built
C23_Witness ==
  /\ pc = "applied"
  /\ op = "buildPrintReadyPacket"
  /\ args.imageSize = 50000
  /\ args.numCopies = 1
  /\ command[9] = 195
  /\ command[10] = 80

\* bytes 6 and 7 of each command in the command table
TableBytes67(f) ==
  CASE f = "buildGetAccessoryInfoPacket" -> <<1, 0>>
    [] f = "buildGetBatteryLevelPacket" -> <<14, 0>>
    [] f = "buildGetPageTypePacket" -> <<13, 0>>
    [] f = "buildGetPrintCountPacket" -> <<0, 1>>
    [] f = "buildGetAutoPowerOffPacket" -> <<16, 0>>
    [] f = "buildPrintReadyPacket" -> <<0, 0>>
    [] f = "buildStartOfSendAck" -> <<1, 0>>
    [] f = "buildEndOfReceivedAck" -> <<1, 1>>
    [] OTHER -> <<1, 0>>

ErrorNames ==
  <<"Success", "Paper jam", "Out of paper", "Printer cover open", "Wrong paper type",
    "Low battery", "Printer overheating", "Printer cooling", "Paper misfeed",
    "Printer busy">>

KnownCodes == (0 .. 9) \cup {254}

C27_PrintCountBigEndian ==
  (pc = "applied" /\ op = "parsePrintCount") =>
    /\ last.val = command[8] * 256 + command[9]
    /\ last.val \in 0 .. 65535
    /\ (command[8] = 1 /\ command[9] = 44) => last.val = 300

\* 01 2C was read as 300 from a response whose other bytes are 0xFF
C27_Witness ==
  /\ pc = "applied"
  /\ op = "parsePrintCount"
  /\ command[8] = 1
  /\ command[9] = 44
  /\ command[10] = 255
  /\ last.val = 300

\* C28: 20 ms separate consecutive image chunks: each write of
\* transferImageData after the first is made no sooner than 20 ms after the
\* write before it, so write n is made at least 20 * (n - 1) ms after the
\* first.
C28_InterChunkDelay ==
  LET d == DataWrites(wire) IN
    \A i \in 1 .. Len(d) :
      /\ i > 1 => d[i].at >= d[i - 1].at + 20
      /\ d[i].at - d[1].at >= 20 * (i - 1)

\* the three writes of a buffer of 10000 bytes, 40 ms from first to last
C28_Witness ==
  /\ pc = "idle"
  /\ last.ok
  /\ args.dataSize = 10000
  /\ Len(DataWrites(wire)) = 3
  /\ DataWrites(wire)[3].at - DataWrites(wire)[1].at >= 40

\* the low 6 bits of v in reverse order: bit i of v is bit 5 - i of the result
ReverseLow6(v) ==
  LET bit(i) == (v \div (2 ^ i)) % 2
  IN  32 * bit(0) + 16 * bit(1) + 8 * bit(2) + 4 * bit(3) + 2 * bit(4) + bit(5)

\* C29: extract_6_bit_reversed(v) is the bitwise reverse of the low 6 bits of
\* v for every raw value v, whatever the bits above bit 5 are: 52 (0b110100)
\* decodes to 11 (0b001011) and 11 to 52.
C29_BatteryDecodeReverses ==
  (pc = "applied" /\ op = "extract_6_bit_reversed") =>
    /\ last.val = ReverseLow6(args.value)
    /\ args.value = 52 => last.val = 11
    /\ args.value = 11 => last.val = 52

\* the status entries of a Canon print's transport record
StatusReads(w) == SelectSeq(w, LAMBDA e : e.kind = "status")

\* the errors that correspond to what a raw status shows
RefusalsFor(raw) ==
  (IF raw.error_code # 0 THEN {"Error code"} ELSE {}) \cup
  (IF raw.battery < 30 THEN {"Low battery"} ELSE {}) \cup
  (IF raw.cover_open THEN {"Cover open"} ELSE {}) \cup
  (IF raw.no_paper THEN {"No paper"} ELSE {}) \cup
  (IF raw.wrong_sheet THEN {"Wrong smart sheet"} ELSE {})

\* C30: when the GetStatus response of a Canon print shows error_code # 0,
\* battery < 30, cover open, no paper or a wrong smart sheet, the print has
\* failed with an error that corresponds to the response, and neither a
\* PrintReady (0x0301) packet nor an image chunk was written.
C30_CanonRefusesBeforePrintReady ==
  \A i \in 1 .. Len(StatusReads(wire)) :
    LET raw == StatusReads(wire)[i].raw
    IN  RefusalsFor(raw) # {} =>
          /\ pc = "idle"
          /\ ~last.ok
          /\ last.cause \in RefusalsFor(raw)
          /\ \A j \in 1 .. Len(wire) :
               /\ wire[j].kind # "data"
               /\ wire[j].kind = "cmd" => wire[j].code = 257

\* a print refused for a battery of 20 with nothing else wrong: GetStatus is
\* the only packet written
C30_Witness ==
  /\ pc = "idle" /\ op = "print" /\ ~last.ok /\ last.cause = "Low battery"
  /\ Len(StatusReads(wire)) = 1
  /\ StatusReads(wire)[1].raw.battery = 20
  /\ StatusReads(wire)[1].raw.error_code = 0
  /\ wire[1] = [kind |-> "cmd", code |-> 257]
  /\ Len(wire) = 2

\* C33: the timeout test of receiveResponse, millis() - startTime > timeoutMs
\* in 32-bit unsigned arithmetic, is true exactly when the true time since
\* startTime exceeds timeoutMs, for every startTime, including those within
\* timeoutMs of 2^32, and every true elapsed time below 2^32 ms.
C33_TimeoutAcrossWraparound ==
  (pc = "applied" /\ op = "receiveResponse") =>
    ((last.val = 1) <=>
       (args.trueElapsed[1] > 0 \/ args.trueElapsed[2] > args.timeoutMs))

\* the counter has wrapped between startTime and the test, 5001 ms have
\* passed and the test says timeout
C33_Witness ==
  /\ pc = "applied" /\ op = "receiveResponse"
  /\ args.startTime = <<65535, 65536 - 5000>>
  /\ args.now = <<0, 1>>
  /\ args.trueElapsed = <<0, 5001>>
  /\ last.val = 1

\* C35: the size field (bytes 8-10) of every PrintReady packet that printImage
\* writes equals the image size, which is below 2^24; buildPrintReadyPacket
\* called with a size s >= 2^24 encodes s mod 2^24.
C35_PrintReadySizeExact ==
  /\ op = "printImage" =>
       \A i \in DOMAIN wire :
         IsCmdEntry(wire[i], 0, 0) =>
           /\ SizeField(wire[i]) = args.dataSize
           /\ args.dataSize < 16777216
  /\ (pc = "applied" /\ op = "buildPrintReadyPacket" /\ args.imageSize >= 16777216) =>
       command[8] * 65536 + command[9] * 256 + command[10] = args.imageSize % 16777216

\* printImage has written the PrintReady packet for an image of 2 MiB
C35_Witness ==
  /\ op = "printImage"
  /\ args.dataSize = 2097152
  /\ \E i \in DOMAIN wire :
       /\ IsCmdEntry(wire[i], 0, 0)
       /\ wire[i].pkt[8] = 32 /\ wire[i].pkt[9] = 0 /\ wire[i].pkt[10] = 0

\* C36: during a transfer the progress callback, when one is given, is called
\* exactly once after each chunk that was written whole, with totalBytes the
\* image size and bytesSent the bytes written so far; bytesSent increases
\* strictly, the last call of a successful transfer has bytesSent =
\* totalBytes, and the callback is not called for a chunk whose write failed
\* nor after it (a failed write is the last one).  Every write before write i
\* was a whole chunk of 4096 bytes, so the bytes written so far are
\* 4096 * (i - 1) plus the length of write i.
C36_ProgressAfterEachChunk ==
  (op = "printImage" /\ args.progressCallback) =>
    LET d == DataWrites(wire) IN
      /\ \A i \in 1 .. Len(d) :
           IF d[i].n = Min(4096, args.dataSize - d[i].off)
             THEN /\ i < Len(d) => d[i].n = 4096
                  /\ d[i].progress =
                       <<[bytesSent |-> 4096 * (i - 1) + d[i].n,
                          totalBytes |-> args.dataSize]>>
                  /\ i > 1 => d[i].progress[1].bytesSent > d[i - 1].progress[1].bytesSent
             ELSE /\ d[i].progress = <<>>
                  /\ i = Len(d)
                  /\ pc = "idle" /\ ~last.ok
      /\ (pc = "idle" /\ last.op = "printImage" /\ last.ok) =>
           d[Len(d)].progress[1].bytesSent = args.dataSize

\* a transfer of 10000 bytes failed at its third write: two callbacks, for
\* 4096 and 8192 bytes, and none for the third chunk
C36_Witness ==
  /\ pc = "idle" /\ ~last.ok /\ args.dataSize = 10000 /\ args.progressCallback
  /\ Len(DataWrites(wire)) = 3
  /\ DataWrites(wire)[1].progress = <<[bytesSent |-> 4096, totalBytes |-> 10000]>>
  /\ DataWrites(wire)[2].progress = <<[bytesSent |-> 8192, totalBytes |-> 10000]>>
  /\ DataWrites(wire)[3].progress = <<>>

\* the cached slim flag changes only in the step that ends a successful
\* initialize, and that step sets it to the isSlim argument
C37_Step ==
  /\ status'.is_slim_device # status.is_slim_device =>
       (op = "initialize" /\ pc = "parse" /\ pc' = "idle" /\ last'.ok)
  /\ (op = "initialize" /\ pc # "idle" /\ pc' = "idle" /\ last'.ok) =>
       status'.is_slim_device = args.isSlim
  /\ (op = "initialize" /\ pc # "idle" /\ pc' = "idle" /\ ~last'.ok) =>
       status'.is_slim_device = status.is_slim_device

\* every GetAccessoryInfo packet of getBatteryLevel and printImage carries the
\* cached flag in byte 5
C37_Packets ==
  op \in {"getBatteryLevel", "printImage"} =>
    \A i \in DOMAIN wire :
      IsCmdEntry(wire[i], 1, 0) =>
        wire[i].pkt[5] = IF status.is_slim_device THEN 2 ELSE 0

\* C37: the cached slim flag changes only on a successful initialize, which
\* sets it to its isSlim argument; a failed initialize leaves it unchanged;
\* every GetAccessoryInfo packet written later by getBatteryLevel or
\* printImage has byte 5 = 2 iff the flag is set, that is, iff the most recent
\* successful initialize was called with isSlim = true (0 if none succeeded).
C37_SlimFlagOnlyOnSuccess == []C37_Packets /\ [][C37_Step]_vars

\* after a successful initialize(true), getBatteryLevel has written a
\* GetAccessoryInfo packet with byte 5 = 2
C37_Witness ==
  /\ op = "getBatteryLevel"
  /\ status.is_slim_device
  /\ Len(wire) >= 1
  /\ IsCmdEntry(wire[1], 1, 0)
  /\ wire[1].pkt[5] = 2

\* the first device of a scan whose name has the search string in it, whatever
\* the case of the letters; 0 if there is none
RECURSIVE FirstNamed(_, _, _)
FirstNamed(devices, search, i) ==
  IF i > Len(devices) THEN 0
  ELSE IF /\ ~devices[i].null
          /\ \E j \in 0 .. Len(devices[i].name) - Len(search) :
               \A k \in 1 .. Len(search) :
                 tolower(devices[i].name[j + k]) = tolower(search[k])
    THEN i
  ELSE FirstNamed(devices, search, i + 1)

\* C34: connectByName, given a name and a scan result, makes one connect
\* attempt, to the first device in scan order whose name contains the search
\* string as a case-insensitive substring; when no name matches (or the scan
\* found no device) it fails with "Printer not found in scan", makes no connect
\* attempt and leaves the connected flag as it was.
C34_Step ==
  (/\ pc = "idle"
   /\ calls' = calls + 1
   /\ op' = "connectByName"
   /\ btSerial # "null"
   /\ ~args'.printerName.null
   /\ ~args'.scan.null) =>
    LET first == FirstNamed(args'.scan.devices, args'.printerName.chars, 1) IN
      IF first = 0
        THEN /\ ~last'.ok
             /\ lastError' = "Printer not found in scan"
             /\ last'.val = 0
             /\ status'.is_connected = status.is_connected
        ELSE /\ last'.val = first
             /\ last'.ok => status'.is_connected

C34_ConnectByNameFirstMatch == [][C34_Step]_vars

\* the connected flag becomes true only when a connect or connectByName
\* succeeds
C38_SetOnlyByConnect ==
  (status'.is_connected /\ ~status.is_connected) =>
    (op' \in {"connect", "connectByName"} /\ pc' = "idle" /\ last'.ok)

\* after a call of disconnect() the flag is false
C38_ClearedByDisconnect ==
  (pc = "idle" /\ calls' = calls + 1 /\ op' = "disconnect") =>
    ~status'.is_connected

\* sendCommand and receiveResponse, when they see the link down, clear the flag
C38_ClearedOnLinkLoss ==
  (pc \in {"send", "recv"} /\ btSerial # "null" /\ ~linkUp /\ pc' # pc) =>
    (~status'.is_connected /\ pc' = "idle" /\ ~last'.ok /\ wire' = wire)

\* while the flag is false an operation fails without writing
C38_NoWriteWhileCleared ==
  (/\ ~status.is_connected
   /\ pc = "idle"
   /\ calls' = calls + 1
   /\ op' \notin {"begin", "connect", "connectByName", "disconnect"}) =>
    (pc' = "idle" /\ ~last'.ok /\ wire' = <<>> /\ ~status'.is_connected)

\* C38: status.is_connected is true only if a connect or connectByName has
\* succeeded and neither a disconnect() nor a detected link loss has happened
\* since; sendCommand and receiveResponse clear the flag when they see the
\* link down, and from then on every operation fails without writing to the
\* transport until a new connect succeeds.
C38_ConnectedFlag ==
  [][/\ C38_SetOnlyByConnect
     /\ C38_ClearedByDisconnect
     /\ C38_ClearedOnLinkLoss
     /\ C38_NoWriteWhileCleared]_vars

\* C31: the expiry of the auto-disconnect timer never itself clears the
\* alive flag, closes the transport or joins the I/O thread from the timer's
\* thread; it only posts a Disconnect request that the session's own thread
\* acts on.
C31_Step ==
  \A k \in 1 .. MaxTimers :
    client'.threads[TimerName[k]] # client.threads[TimerName[k]] =>
      /\ client'.alive = client.alive
      /\ client'.connected = client.connected
      /\ client'.threads[TimerName[k]].pc # "join"

C31_TimerOnlyPostsRequest == [][C31_Step]_vars

\* at most one timer is pending
C32_OnePending == Cardinality(Pending) <= 1

\* _reset_disconnect_timer, called by connect and after every send, leaves the
\* timer there was not pending and, unless a disconnect has begun, a new timer
\* pending; a timer fires only when auto_disconnect_timeout = 30 s have passed
\* since it was started
C32_Step ==
  /\ \A t \in {"main", "io"} :
       /\ (client.threads[t].pc = "reset" /\ client'.threads[t].pc = "make") =>
            (client.disconnect_timer # 0 =>
               client'.timers[client.disconnect_timer].state # "waiting")
       /\ (client.threads[t].pc = "arm" /\ client'.threads[t].pc # "arm"
             /\ client'.alive) =>
            /\ client'.timers[client'.disconnect_timer].state = "waiting"
            /\ client'.timers[client'.disconnect_timer].age = 0
            /\ Pending' = {client'.disconnect_timer}
  /\ (client.threads["main"].pc = "connected" /\ client'.threads["main"].pc # "connected") =>
       client'.threads["main"].pc = "reset"
  /\ (client.threads["io"].pc = "send" /\ client'.threads["io"].pc # "send"
        /\ client.connected) =>
       client'.threads["io"].pc = "reset"
  /\ \A k \in DOMAIN client.timers :
       (client.timers[k].state # "fired" /\ client'.timers[k].state = "fired") =>
         client.timers[k].age >= 30

\* the client has disconnected: alive cleared and the transport closed
C32_Disconnected == ~client.alive /\ ~client.connected

\* C32: the auto-disconnect timer is one-shot and resettable: it is armed on
\* connect and re-armed, the previous timer cancelled, on every outbound send;
\* at most one timer is pending at any time; and when no outbound message is
\* sent for auto_disconnect_timeout = 30 s the client eventually disconnects
\* (alive cleared and the transport closed).
C32_AutoDisconnect ==
  /\ []C32_OnePending
  /\ [][C32_Step]_vars
  /\ (client.alive ~> C32_Disconnected)

\* the I/O thread has sent a message and re-armed the timer: the first timer
\* is cancelled, the second is pending, and the client is alive
C32_Witness ==
  /\ client.alive /\ client.connected
  /\ Len(client.timers) = 2
  /\ client.timers[1].state = "cancelled"
  /\ client.timers[2].state = "waiting"
  /\ client.disconnect_timer = 2
  /\ client.threads["io"].pc = "recv"

====
